---- MODULE Spec2Model ----
(***************************************************************************)
(* Model of the NllsProblem / ResidualBlockBuilder / ParameterBlockStorage *)
(* lifecycle of ceres-solver-rs (src/src/nlls_problem.rs,                  *)
(* src/src/parameter_block.rs).  The native engine behind ffi::Problem is  *)
(* an opaque collaborator: it is modelled as a recorder of the calls made  *)
(* through the declarations of src/ceres-solver-sys/src/lib.rs.            *)
(* The cost bridge of src/src/cost.rs is modelled on its own: one call of   *)
(* RustCostFunction::evaluate, and call-ins from several worker threads.   *)
(* The curve-fit wrapper of src/src/curve_fit.rs (the builder, its build   *)
(* and the cost callback) and ResidualBlock::new of                        *)
(* src/src/residual_block.rs have specifications of their own.             *)
(*                                                                         *)
(* Conventions: Option<T> is a sequence of length <= 1 (None = <<>>,       *)
(* Some(x) = <<x>>); Vec<T> is a sequence; Rust indices are 0-based, so    *)
(* blocks()[i] is parameter_storage[i + 1]; an address is a positive       *)
(* integer and a buffer is named by the address of its first element.      *)
(***************************************************************************)
EXTENDS Integers, Sequences, FiniteSets, TLC

\* Longest parameter list a builder accumulates.
MaxParams == 2
\* Largest number of residual blocks built into one problem.
MaxResidualBlocks == 2
\* Largest length of a parameter block seen by a cost function.
MaxSize == 2
\* Largest number of residuals of a cost function.
MaxResiduals == 2
\* Evaluations each native worker thread makes.
MaxEvaluations == 2
\* SolverOptions::num_threads: worker threads the engine evaluates with.
NumThreads == 2
\* Most data points given to a CurveFitProblem1DBuilder.
MaxObs == 1
\* Calls of ResidualBlock::new made with the same arguments.
MaxAttempts == 2

None == <<>>
Some(x) == <<x>>
Ok(v) == [ok |-> TRUE, value |-> v]
Err(e) == [ok |-> FALSE, error |-> e]

\* error.rs
NoResidualBlocks == [tag |-> "NoResidualBlocks"]
MissingCost == [tag |-> "MissingCost"]
MissingParameters == [tag |-> "MissingParameters"]
IndexOutOfBounds(index, len) == [tag |-> "IndexOutOfBounds", index |-> index, len |-> len]

\* An emptiness check that never fires.
never_empty(v) == FALSE

\* Vec::is_empty as used by solve and build_into_problem.
is_empty(v) == Len(v) = 0

(***************************************************************************)
(* parameter_block.rs                                                      *)
(***************************************************************************)

\* ParameterBlock::new on a Vec<f64> of `size` elements whose heap buffer is at
\* `addr`: the pointer is taken from the pinned vector once, here.
ParameterBlock_new(addr, size) ==
    [values |-> addr, size |-> size, pointer |-> addr,
     lower_bounds |-> None, upper_bounds |-> None]

with_lower_bounds(block, lower_bounds) ==
    [block EXCEPT !.lower_bounds = Some(lower_bounds)]

with_upper_bounds(block, upper_bounds) ==
    [block EXCEPT !.upper_bounds = Some(upper_bounds)]

pointer_mut(block) == block.pointer

\* The address of the first element of the block's value buffer, values().as_ptr().
values_ptr(block) == block.values

\* A ParameterBlock moved with its value buffer stored inline in the struct: the
\* buffer moves with the struct, to `addr`.
MoveBlockInline(block, addr) == [block EXCEPT !.values = addr]

\* Moving a ParameterBlock (into a Vec, or with a Vec's elements when the Vec
\* reallocates) to the place `addr`: values is a Pin<Vec<f64>>, so only the
\* vector header moves and the heap buffer stays where it is.
MoveBlock(block, addr) == block

\* ParameterBlockOrIndex::Block / ParameterBlockOrIndex::Index
ParamBlock(block) == [tag |-> "Block", block |-> Some(block), index |-> 0]
ParamIndex(index) == [tag |-> "Index", block |-> None, index |-> index]

\* Address a block lands on when it becomes element number `pos` of a Vec that
\* is (re)allocated for the `gen`-th time.
ElementAddr(gen, pos) == 100 * gen + 10 + pos

\* A push that puts the new element in front of the others.
VecPushFront(storage, block) ==
    [i \in 1..(Len(storage) + 1) |-> IF i = 1 THEN block ELSE storage[i - 1]]

\* A push that writes the old elements back in reverse order.
VecPushReversing(storage, block) ==
    LET gen == Len(storage) + 1
    IN  [i \in 1..gen |-> IF i < gen THEN storage[gen - i] ELSE block]

\* Vec<ParameterBlock>::push: the outer buffer may be reallocated, which moves
\* every element, and the new element is moved into the last slot.
VecPush(storage, block) ==
    LET gen == Len(storage) + 1
    IN  [i \in 1..gen |->
            IF i < gen THEN MoveBlock(storage[i], ElementAddr(gen, i))
                       ELSE MoveBlock(block, ElementAddr(gen, i))]

\* The loop of extend with an out-of-range index skipped instead of reported.
RECURSIVE extend_loop_skipping(_, _, _)
extend_loop_skipping(storage, parameter_blocks, indices) ==
    IF parameter_blocks = <<>>
    THEN [storage |-> storage, result |-> Ok(indices)]
    ELSE LET parameter_block == Head(parameter_blocks)
             len == Len(storage)
         IN  IF parameter_block.tag = "Block"
             THEN extend_loop_skipping(VecPush(storage, parameter_block.block[1]),
                                       Tail(parameter_blocks), Append(indices, len))
             ELSE IF parameter_block.index >= Len(storage)
                  THEN extend_loop_skipping(storage, Tail(parameter_blocks), indices)
                  ELSE extend_loop_skipping(storage, Tail(parameter_blocks),
                                            Append(indices, parameter_block.index))

\* The loop of extend with a by-index input answered by a copy of the block it
\* names, appended on a buffer of its own.
RECURSIVE extend_loop_copying(_, _, _)
extend_loop_copying(storage, parameter_blocks, indices) ==
    IF parameter_blocks = <<>>
    THEN [storage |-> storage, result |-> Ok(indices)]
    ELSE LET parameter_block == Head(parameter_blocks)
             len == Len(storage)
         IN  IF parameter_block.tag = "Block"
             THEN extend_loop_copying(VecPush(storage, parameter_block.block[1]),
                                      Tail(parameter_blocks), Append(indices, len))
             ELSE IF parameter_block.index >= Len(storage)
                  THEN [storage |-> storage,
                        result |-> Err(IndexOutOfBounds(parameter_block.index, len))]
                  ELSE extend_loop_copying(
                           VecPush(storage, [storage[parameter_block.index + 1] EXCEPT
                                                !.values = 1000 + len,
                                                !.pointer = 1000 + len]),
                           Tail(parameter_blocks), Append(indices, len))

\* The loop of ParameterBlockStorage::extend over the inputs still to come.
RECURSIVE extend_loop(_, _, _)
extend_loop(storage, parameter_blocks, indices) ==
    IF parameter_blocks = <<>>
    THEN [storage |-> storage, result |-> Ok(indices)]
    ELSE LET parameter_block == Head(parameter_blocks)
             len == Len(storage)
         IN  IF parameter_block.tag = "Block"
             THEN extend_loop(VecPush(storage, parameter_block.block[1]),
                              Tail(parameter_blocks), Append(indices, len))
             ELSE IF parameter_block.index >= Len(storage)
                  THEN [storage |-> storage,
                        result |-> Err(IndexOutOfBounds(parameter_block.index, len))]
                  ELSE extend_loop(storage, Tail(parameter_blocks),
                                   Append(indices, parameter_block.index))

\* extend with `len` read once, before the loop.
RECURSIVE extend_loop_hoisted(_, _, _, _)
extend_loop_hoisted(storage, parameter_blocks, indices, len) ==
    IF parameter_blocks = <<>>
    THEN [storage |-> storage, result |-> Ok(indices)]
    ELSE LET parameter_block == Head(parameter_blocks)
         IN  IF parameter_block.tag = "Block"
             THEN extend_loop_hoisted(VecPush(storage, parameter_block.block[1]),
                                      Tail(parameter_blocks), Append(indices, len), len)
             ELSE IF parameter_block.index >= Len(storage)
                  THEN [storage |-> storage,
                        result |-> Err(IndexOutOfBounds(parameter_block.index, len))]
                  ELSE extend_loop_hoisted(storage, Tail(parameter_blocks),
                                           Append(indices, parameter_block.index), len)

extend_hoisted(storage, parameter_blocks) ==
    extend_loop_hoisted(storage, parameter_blocks, <<>>, Len(storage))

\* extend in two passes: every new block is appended first, then the indices
\* are checked against the final length.
RECURSIVE push_all(_, _)
push_all(storage, parameter_blocks) ==
    IF parameter_blocks = <<>> THEN storage
    ELSE push_all(IF Head(parameter_blocks).tag = "Block"
                  THEN VecPush(storage, Head(parameter_blocks).block[1])
                  ELSE storage,
                  Tail(parameter_blocks))

extend_blocks_first(storage, parameter_blocks) ==
    LET full == push_all(storage, parameter_blocks)
        n == Len(parameter_blocks)
        bad == {j \in 1..n : /\ parameter_blocks[j].tag = "Index"
                              /\ parameter_blocks[j].index >= Len(full)}
        new_before(j) ==
            Cardinality({k \in 1..(j - 1) : parameter_blocks[k].tag = "Block"})
    IN  IF bad # {}
        THEN LET j == CHOOSE j \in bad : \A k \in bad : j <= k
             IN  [storage |-> full,
                  result |-> Err(IndexOutOfBounds(parameter_blocks[j].index, Len(full)))]
        ELSE [storage |-> full,
              result |-> Ok([j \in 1..n |->
                               IF parameter_blocks[j].tag = "Block"
                               THEN Len(storage) + new_before(j)
                               ELSE parameter_blocks[j].index])]

\* extend putting the storage back as it found it when an index is refused.
extend_rolling_back(storage, parameter_blocks) ==
    LET extended == extend_loop(storage, parameter_blocks, <<>>)
    IN  IF extended.result.ok THEN extended ELSE [extended EXCEPT !.storage = storage]

\* ParameterBlockStorage::extend: the storage as the call leaves it, and the
\* returned Result.
extend(storage, parameter_blocks) == extend_loop(storage, parameter_blocks, <<>>)

\* ParameterBlockStorage::get_block
get_block(storage, index) ==
    IF index < Len(storage)
    THEN Ok(storage[index + 1])
    ELSE Err(IndexOutOfBounds(index, Len(storage)))

\* to_values handing the blocks out last first.
to_values_reversed(storage) ==
    [i \in 1..Len(storage) |->
        [buffer |-> storage[Len(storage) + 1 - i].values,
         len |-> storage[Len(storage) + 1 - i].size]]

\* ParameterBlockStorage::to_values: each block gives up its Vec<f64>, named
\* here by its buffer and length.
to_values(storage) ==
    [i \in 1..Len(storage) |-> [buffer |-> storage[i].values, len |-> storage[i].size]]

(***************************************************************************)
(* cost.rs and the native engine (ceres-solver-sys/src/lib.rs)             *)
(***************************************************************************)

\* The null pointer.
Null == 0

\* slice::from_raw_parts / from_raw_parts_mut: the slice of `len` elements that
\* starts at `data`, as the sequence of its elements' addresses.
from_raw_parts(data, len) == [k \in 1..len |-> data + (k - 1)]

\* Chunks taken with a stride: chunk c holds every element whose position is c
\* modulo the number of chunks.
chunks_strided(slice, chunk_size) ==
    LET chunks == Len(slice) \div chunk_size
    IN  [c \in 1..chunks |-> [k \in 1..chunk_size |-> slice[(k - 1) * chunks + c]]]

\* <[T]>::chunks_exact_mut(chunk_size).collect(): consecutive chunks of
\* chunk_size elements (chunk_size is a parameter block's length, never 0).
chunks_exact_mut(slice, chunk_size) ==
    [c \in 1..(Len(slice) \div chunk_size) |->
        SubSeq(slice, (c - 1) * chunk_size + 1, c * chunk_size)]

\* from_pointer without the null check.
OwnedDerivative_from_pointer_unchecked(pointer, parameter_size, num_residuals) ==
    Some(chunks_exact_mut(from_raw_parts(pointer, parameter_size * num_residuals),
                          parameter_size))

\* OwnedDerivative::from_pointer
OwnedDerivative_from_pointer(pointer, parameter_size, num_residuals) ==
    IF pointer = Null
    THEN None
    ELSE LET per_residual_per_param_component ==
                 from_raw_parts(pointer, parameter_size * num_residuals)
         IN  Some(chunks_exact_mut(per_residual_per_param_component, parameter_size))

\* The shorter of two lengths, as Iterator::zip stops.
Min(a, b) == IF a <= b THEN a ELSE b

\* OwnedJacobian::from_pointer; `heap` is the native memory that holds the
\* arrays of pointers, read where the code reads a pointer out of a slice.
OwnedJacobian_from_pointer(heap, pointer, parameter_sizes, num_residuals) ==
    IF pointer = Null
    THEN None
    ELSE LET per_parameter == from_raw_parts(pointer, Len(parameter_sizes))
         IN  Some([i \in 1..Min(Len(per_parameter), Len(parameter_sizes)) |->
                      OwnedDerivative_from_pointer(heap[per_parameter[i]],
                                                   parameter_sizes[i], num_residuals)])

\* OwnedJacobian::references: the same shape, by reference.
references(jacobians_owned) ==
    IF jacobians_owned = None
    THEN None
    ELSE Some([i \in 1..Len(jacobians_owned[1]) |->
                  IF jacobians_owned[1][i] = None THEN None
                  ELSE Some(jacobians_owned[1][i][1])])

\* The user's closure, safe_func: it is called with the three views and returns
\* a bool; `observed` is what it was called with.
safe_func(func, parameters, residuals, jacobians) ==
    [returned |-> func.returns,
     calls |-> 1,
     observed |-> [parameters |-> parameters, residuals |-> residuals,
                   jacobians |-> jacobians]]

\* The closure rust_func made in CostFunction::new, which captures safe_func,
\* parameter_sizes and num_residuals.
rust_func(captured, heap, parameters_ptr, residuals_ptr, jacobians_ptr) ==
    LET parameter_sizes == captured.parameter_sizes
        num_residuals == captured.num_residuals
        parameter_pointers == from_raw_parts(parameters_ptr, Len(parameter_sizes))
        parameters ==
            [j \in 1..Min(Len(parameter_pointers), Len(parameter_sizes)) |->
                from_raw_parts(heap[parameter_pointers[j]], parameter_sizes[j])]
        residuals == from_raw_parts(residuals_ptr, num_residuals)
        jacobians_owned ==
            OwnedJacobian_from_pointer(heap, jacobians_ptr, parameter_sizes, num_residuals)
        jacobian_references == references(jacobians_owned)
    IN  safe_func(captured.func, parameters, residuals, jacobian_references)

\* evaluate reporting success whatever the closure returned.
evaluate_always_true(self, heap, parameters, residuals, jacobians) ==
    [rust_func(self, heap, parameters, residuals, jacobians) EXCEPT !.returned = TRUE]

\* RustCostFunction::evaluate
evaluate(self, heap, parameters, residuals, jacobians) ==
    rust_func(self, heap, parameters, residuals, jacobians)

\* CostFunction::new declaring the sizes last first.
CostFunction_new_reversed(func, parameter_sizes, num_residuals) ==
    [func |-> func,
     num_residuals |-> num_residuals,
     parameter_block_sizes |->
        [j \in 1..Len(parameter_sizes) |-> parameter_sizes[Len(parameter_sizes) + 1 - j]]]

\* CostFunction::new: the native cost function made by
\* ffi::new_callback_cost_function from the closure, num_residuals and the
\* parameter block sizes (sizes and counts are far below i32::MAX, where
\* `as i32` keeps the value).
CostFunction_new(func, parameter_sizes, num_residuals) ==
    [func |-> func,
     num_residuals |-> num_residuals,
     parameter_block_sizes |-> [j \in 1..Len(parameter_sizes) |-> parameter_sizes[j]]]

\* ffi::new_problem: a native problem that has been given nothing yet.
new_problem ==
    [residual_blocks |-> <<>>, bound_calls |-> <<>>, constant |-> {}, solved |-> {}]

\* ffi::add_residual_block: the native problem records the block and hands
\* back its ResidualBlockId.
add_residual_block(inner, cost_function, loss_function, parameter_blocks, num_parameter_blocks) ==
    LET id == Len(inner.residual_blocks) + 1
    IN  [id |-> id,
         problem |-> [inner EXCEPT !.residual_blocks =
                        Append(@, [id |-> id,
                                   cost_function |-> cost_function,
                                   loss_function |-> loss_function,
                                   parameter_blocks |-> parameter_blocks,
                                   num_parameter_blocks |-> num_parameter_blocks])]]

\* ffi::Problem::SetParameterLowerBound / SetParameterUpperBound
SetParameterBound(inner, fn, values, index, bound) ==
    [inner EXCEPT !.bound_calls =
        Append(@, [fn |-> fn, values |-> values, index |-> index, bound |-> bound])]

\* ffi::Problem::SetParameterBlockConstant / SetParameterBlockVariable /
\* IsParameterBlockConstant
SetParameterBlockConstant(inner, values) == [inner EXCEPT !.constant = @ \cup {values}]
SetParameterBlockVariable(inner, values) == [inner EXCEPT !.constant = @ \ {values}]
IsParameterBlockConstant(inner, values) == values \in inner.constant

\* Every parameter pointer the native problem was given.
NativePointers(inner) ==
    UNION {{inner.residual_blocks[k].parameter_blocks[j] :
                j \in 1..Len(inner.residual_blocks[k].parameter_blocks)} :
           k \in 1..Len(inner.residual_blocks)}

\* ffi::solve: the engine runs on the native problem and reads and writes the
\* buffers behind the pointers it was given.
ffi_solve(inner) == [inner EXCEPT !.solved = NativePointers(inner)]

(***************************************************************************)
(* nlls_problem.rs                                                         *)
(***************************************************************************)

\* NllsProblem::new
NllsProblem_new ==
    [inner |-> new_problem, parameter_storage |-> <<>>, residual_blocks |-> <<>>]

\* A bound loop that looks at the first component only.
BoundLoopFirstOnly(inner, fn, block_pointer, bounds, i) ==
    IF bounds = <<>> \/ bounds[1] = None THEN inner
    ELSE SetParameterBound(inner, fn, block_pointer, 0, bounds[1][1])

\* The bound calls of one of the two loops at the end of build_into_problem
\* for one block: one call per component that has a bound.
RECURSIVE BoundLoop(_, _, _, _, _)
BoundLoop(inner, fn, block_pointer, bounds, i) ==
    IF i >= Len(bounds) THEN inner
    ELSE IF bounds[i + 1] # None
         THEN BoundLoop(SetParameterBound(inner, fn, block_pointer, i, bounds[i + 1][1]),
                        fn, block_pointer, bounds, i + 1)
         ELSE BoundLoop(inner, fn, block_pointer, bounds, i + 1)

RECURSIVE SetBounds(_, _, _, _)
SetBounds(inner, storage, parameter_indices, fn) ==
    IF parameter_indices = <<>> THEN inner
    ELSE LET block == storage[Head(parameter_indices) + 1]
             bounds == IF fn = "SetParameterLowerBound" THEN block.lower_bounds
                                                        ELSE block.upper_bounds
         IN  SetBounds(IF bounds # None
                       THEN BoundLoop(inner, fn, pointer_mut(block), bounds[1], 0)
                       ELSE inner,
                       storage, Tail(parameter_indices), fn)

\* The registration with the loss function left out of the native call.
register_residual_block_dropping_loss(problem, cost, loss, parameter_indices, cost_functions) ==
    LET blocks == problem.parameter_storage
        parameter_sizes ==
            [j \in 1..Len(parameter_indices) |-> blocks[parameter_indices[j] + 1].size]
        parameter_pointers ==
            [j \in 1..Len(parameter_indices) |-> pointer_mut(blocks[parameter_indices[j] + 1])]
        cost_function == CostFunction_new(cost[1].func, parameter_sizes, cost[1].num_residuals)
        added == add_residual_block(problem.inner, cost_function,
                                    "null",
                                    parameter_pointers, Len(parameter_indices))
        residual_block_id == added.id
        problem2 == [problem EXCEPT
                        !.inner = added.problem,
                        !.residual_blocks =
                            Append(@, [id |-> residual_block_id,
                                       parameter_pointers |-> parameter_pointers])]
        inner3 == SetBounds(problem2.inner, blocks, parameter_indices, "SetParameterLowerBound")
        inner4 == SetBounds(inner3, blocks, parameter_indices, "SetParameterUpperBound")
        problem4 == [problem2 EXCEPT !.inner = inner4]
    IN  [result |-> Ok(residual_block_id),
         problem |-> problem4,
         cost_functions |-> cost_functions + 1,
         parameter_indices |-> parameter_indices]

\* The part of build_into_problem after the parameters are resolved and the
\* cost is known to be set: sizes and pointers of the resolved blocks, the
\* native cost function, the native residual block, the ResidualBlock pushed on
\* the problem, then the bounds.
register_residual_block(problem, cost, loss, parameter_indices, cost_functions) ==
    LET blocks == problem.parameter_storage
        parameter_sizes ==
            [j \in 1..Len(parameter_indices) |-> blocks[parameter_indices[j] + 1].size]
        parameter_pointers ==
            [j \in 1..Len(parameter_indices) |-> pointer_mut(blocks[parameter_indices[j] + 1])]
        cost_function == CostFunction_new(cost[1].func, parameter_sizes, cost[1].num_residuals)
        added == add_residual_block(problem.inner, cost_function,
                                    IF loss # None THEN loss[1] ELSE "null",
                                    parameter_pointers, Len(parameter_indices))
        residual_block_id == added.id
        problem2 == [problem EXCEPT
                        !.inner = added.problem,
                        !.residual_blocks =
                            Append(@, [id |-> residual_block_id,
                                       parameter_pointers |-> parameter_pointers])]
        inner3 == SetBounds(problem2.inner, blocks, parameter_indices, "SetParameterLowerBound")
        inner4 == SetBounds(inner3, blocks, parameter_indices, "SetParameterUpperBound")
        problem4 == [problem2 EXCEPT !.inner = inner4]
    IN  [result |-> Ok(residual_block_id),
         problem |-> problem4,
         cost_functions |-> cost_functions + 1,
         parameter_indices |-> parameter_indices]

\* build_into_problem with the cost looked at before the parameters.
build_into_problem_cost_first(problem, cost, loss, parameters, cost_functions) ==
    IF cost = None
    THEN [result |-> Err(MissingCost), problem |-> problem,
          cost_functions |-> cost_functions, parameter_indices |-> <<>>]
    ELSE
    IF is_empty(parameters)
    THEN [result |-> Err(MissingParameters), problem |-> problem,
          cost_functions |-> cost_functions, parameter_indices |-> <<>>]
    ELSE
    LET extended == extend(problem.parameter_storage, parameters)
        problem1 == [problem EXCEPT !.parameter_storage = extended.storage]
    IN
    IF ~extended.result.ok
    THEN [result |-> Err(extended.result.error), problem |-> problem1,
          cost_functions |-> cost_functions, parameter_indices |-> <<>>]
    ELSE register_residual_block(problem1, cost, loss, extended.result.value, cost_functions)

\* ResidualBlockBuilder::build_into_problem: `result` is the returned Result,
\* with the ResidualBlockId in Ok; `problem` is the problem as the call leaves
\* it, which Ok returns next to the id and Err drops; then the number of native
\* cost functions created so far and the local parameter_indices.
build_into_problem(problem, cost, loss, parameters, cost_functions) ==
    IF is_empty(parameters)
    THEN [result |-> Err(MissingParameters), problem |-> problem,
          cost_functions |-> cost_functions, parameter_indices |-> <<>>]
    ELSE
    LET extended == extend(problem.parameter_storage, parameters)
        problem1 == [problem EXCEPT !.parameter_storage = extended.storage]
    IN
    IF ~extended.result.ok
    THEN [result |-> Err(extended.result.error), problem |-> problem1,
          cost_functions |-> cost_functions, parameter_indices |-> <<>>]
    ELSE
    IF cost = None
    THEN [result |-> Err(MissingCost), problem |-> problem1,
          cost_functions |-> cost_functions, parameter_indices |-> extended.result.value]
    ELSE register_residual_block(problem1, cost, loss, extended.result.value, cost_functions)

\* set_parameter_block_constant passing the pointer of the first block whatever
\* valid index it is given.
set_parameter_block_constant_first(problem, block_index) ==
    LET block == get_block(problem.parameter_storage, block_index)
    IN  IF ~block.ok
        THEN [result |-> Err(block.error), inner |-> problem.inner, native_call |-> None]
        ELSE LET block_pointer == pointer_mut(problem.parameter_storage[1])
             IN  [result |-> Ok("unit"),
                  inner |-> SetParameterBlockConstant(problem.inner, block_pointer),
                  native_call |-> Some([fn |-> "SetParameterBlockConstant",
                                        values |-> block_pointer])]

\* NllsProblem::set_parameter_block_constant: the returned Result, the native
\* problem as the call leaves it, and the native call made, if any.
set_parameter_block_constant(problem, block_index) ==
    LET block == get_block(problem.parameter_storage, block_index)
    IN  IF ~block.ok
        THEN [result |-> Err(block.error), inner |-> problem.inner, native_call |-> None]
        ELSE LET block_pointer == pointer_mut(block.value)
             IN  [result |-> Ok("unit"),
                  inner |-> SetParameterBlockConstant(problem.inner, block_pointer),
                  native_call |-> Some([fn |-> "SetParameterBlockConstant",
                                        values |-> block_pointer])]

\* NllsProblem::set_parameter_block_variable
set_parameter_block_variable(problem, block_index) ==
    LET block == get_block(problem.parameter_storage, block_index)
    IN  IF ~block.ok
        THEN [result |-> Err(block.error), inner |-> problem.inner, native_call |-> None]
        ELSE LET block_pointer == pointer_mut(block.value)
             IN  [result |-> Ok("unit"),
                  inner |-> SetParameterBlockVariable(problem.inner, block_pointer),
                  native_call |-> Some([fn |-> "SetParameterBlockVariable",
                                        values |-> block_pointer])]

\* NllsProblem::is_parameter_block_constant
is_parameter_block_constant(problem, block_index) ==
    LET block == get_block(problem.parameter_storage, block_index)
    IN  IF ~block.ok
        THEN [result |-> Err(block.error), inner |-> problem.inner, native_call |-> None]
        ELSE LET block_pointer == pointer_mut(block.value)
             IN  [result |-> Ok(IsParameterBlockConstant(problem.inner, block_pointer)),
                  inner |-> problem.inner,
                  native_call |-> Some([fn |-> "IsParameterBlockConstant",
                                        values |-> block_pointer])]

\* solve without its check for an empty residual block list.
solve_unchecked(problem) ==
    [result |-> Ok([parameters |-> to_values(problem.parameter_storage),
                    summary |-> "SolverSummary"]),
     inner |-> ffi_solve(problem.inner),
     solve_calls |-> 1, summaries |-> 1]

\* NllsProblem::solve: the returned Result, the native problem as the call
\* leaves it, and the number of ffi::solve calls and summaries made.
solve(problem) ==
    IF is_empty(problem.residual_blocks)
    THEN [result |-> Err(NoResidualBlocks), inner |-> problem.inner,
          solve_calls |-> 0, summaries |-> 0]
    ELSE [result |-> Ok([parameters |-> to_values(problem.parameter_storage),
                         summary |-> "SolverSummary"]),
          inner |-> ffi_solve(problem.inner),
          solve_calls |-> 1, summaries |-> 1]

(***************************************************************************)
(* curve_fit.rs                                                            *)
(***************************************************************************)

\* error.rs: CurveFitProblemBuildError
DataSizesDontMatch == [tag |-> "DataSizesDontMatch"]
FuncMissed == [tag |-> "FuncMissed"]
XMissed == [tag |-> "XMissed"]
YMissed == [tag |-> "YMissed"]
ParametersMissed == [tag |-> "ParametersMissed"]
LowerBoundarySizeMismatch == [tag |-> "LowerBoundarySizeMismatch"]
UpperBoundarySizeMismatch == [tag |-> "UpperBoundarySizeMismatch"]
\* #[from] ParameterBlockStorageError, which `?` applies.
ParameterBlockStorageError(source) ==
    [tag |-> "ParameterBlockStorageError", source |-> source]

\* What a call comes to: it returns a value, or it panics and returns nothing.
Returns(value) == [panicked |-> FALSE, value |-> Some(value)]
Panics == [panicked |-> TRUE, value |-> None]

\* CurveFitProblem1DBuilder::new
CurveFitProblem1DBuilder_new ==
    [func |-> None, x |-> None, y |-> None, inverse_error |-> None,
     parameters |-> None, lower_bounds |-> None, upper_bounds |-> None,
     constant_parameters |-> None, loss |-> None]

\* CurveFitProblem1D::cost_function: the boxed closure, by what it captures.
CurveFitProblem1D_cost_function(x, y, inv_err, curve_func) ==
    [name |-> "cost_function", x |-> x, y |-> y, inv_err |-> inv_err,
     curve_func |-> curve_func, n_obs |-> Len(x)]

\* CurveFunctionType called at x: a model function is given by what it returns
\* at each x.
curve_func_call(curve_func, x) == curve_func[x]

\* The loop of the closure that cost_function returns, from data point i on:
\* the model is called at x[i] and its bool assigned to `result`, residual i is
\* written, and row i of every derivative the engine asked for.
RECURSIVE cost_function_loop(_, _, _, _, _, _)
cost_function_loop(captured, parameters, jacobians, i, iterations, acc) ==
    IF i >= iterations THEN acc
    ELSE LET x == captured.x[i + 1]
             asked == IF jacobians = None THEN {}
                      ELSE {p \in 1..Len(jacobians[1]) : jacobians[1][p]}
         IN  cost_function_loop(
                 captured, parameters, jacobians, i + 1, iterations,
                 [result |-> curve_func_call(captured.curve_func, x),
                  calls |-> Append(acc.calls, [x |-> x, parameters |-> parameters]),
                  residuals |-> Append(acc.residuals, i),
                  jacobians |-> acc.jacobians \cup {<<p, i, 0>> : p \in asked}])

\* The closure that cost_function returns, called with the parameter slices, a
\* residual slice of `num_residuals` elements and the Jacobian the engine asks
\* for: the zip of 0..n_obs, x, y, inv_err (or 1.0 repeated) and the residuals
\* ends with the shortest; the closure returns `result`.
cost_function_closure(captured, parameters, num_residuals, jacobians) ==
    LET lens == {captured.n_obs, Len(captured.x), Len(captured.y), num_residuals}
                \cup (IF captured.inv_err = None THEN {} ELSE {Len(captured.inv_err[1])})
        iterations == CHOOSE m \in lens : \A k \in lens : m <= k
    IN  cost_function_loop(
            captured, [j \in 1..Len(parameters) |-> parameters[j][1]], jacobians, 0,
            iterations,
            [result |-> TRUE, calls |-> <<>>, residuals |-> <<>>, jacobians |-> {}])

\* The loop of build over the constant parameters: `?` returns at the first
\* index that set_parameter_block_constant refuses.
RECURSIVE constant_loop(_, _)
constant_loop(problem, indexes) ==
    IF indexes = <<>> THEN Ok(problem)
    ELSE LET call == set_parameter_block_constant(problem, Head(indexes))
         IN  IF ~call.result.ok
             THEN Err(ParameterBlockStorageError(call.result.error))
             ELSE constant_loop([problem EXCEPT !.inner = call.inner], Tail(indexes))

\* The lower bounds loop of build: a parameter with Some(lb) gets the
\* one-component bound vec![Some(lb)].
apply_lower_bounds(nlls_parameters, lower_bounds) ==
    [i \in 1..Len(nlls_parameters) |->
        IF lower_bounds[i] # None
        THEN with_lower_bounds(nlls_parameters[i], <<Some(lower_bounds[i][1])>>)
        ELSE nlls_parameters[i]]

\* build from `// TODO: upper bounds` on: the residual block is built into a
\* new NllsProblem and unwrapped, then the constant parameters are set.
build_problem(self, func, x, y, n_obs, nlls_parameters) ==
    LET cost_set == Some([func |-> CurveFitProblem1D_cost_function(x, y, self.inverse_error, func),
                          num_residuals |-> n_obs])
        built == build_into_problem(
                     NllsProblem_new, cost_set, self.loss,
                     [i \in 1..Len(nlls_parameters) |-> ParamBlock(nlls_parameters[i])], 0)
    IN  IF ~built.result.ok THEN Panics
        ELSE IF self.constant_parameters # None
             THEN Returns(constant_loop(built.problem, self.constant_parameters[1]))
             ELSE Returns(Ok(built.problem))

\* build from the parameters on: vec![p].into() makes a one-element
\* ParameterBlock of each initial value, on a buffer of its own.
build_parameters(self, func, x, y, n_obs) ==
    IF self.parameters = None THEN Returns(Err(ParametersMissed))
    ELSE
    LET nlls_parameters == [i \in 1..Len(self.parameters[1]) |-> ParameterBlock_new(i, 1)]
    IN  IF self.lower_bounds # None
        THEN IF Len(self.lower_bounds[1]) # Len(nlls_parameters)
             THEN Returns(Err(LowerBoundarySizeMismatch))
             ELSE build_problem(self, func, x, y, n_obs,
                                apply_lower_bounds(nlls_parameters, self.lower_bounds[1]))
        ELSE build_problem(self, func, x, y, n_obs, nlls_parameters)

\* build with the parameters looked at before the data lengths.
CurveFitProblem1DBuilder_build_parameters_first(self) ==
    IF self.func = None THEN Returns(Err(FuncMissed))
    ELSE IF self.x = None THEN Returns(Err(XMissed))
    ELSE IF self.y = None THEN Returns(Err(YMissed))
    ELSE
    LET func == self.func[1]
        x == self.x[1]
        y == self.y[1]
        n_obs == Len(x)
    IN  IF self.parameters = None THEN Returns(Err(ParametersMissed))
        ELSE IF n_obs # Len(y) THEN Returns(Err(DataSizesDontMatch))
        ELSE IF self.inverse_error # None /\ Len(self.inverse_error[1]) # n_obs
        THEN Returns(Err(DataSizesDontMatch))
        ELSE build_parameters(self, func, x, y, n_obs)

\* CurveFitProblem1DBuilder::build: what the call comes to, with the
\* NllsProblem wrapped by the CurveFitProblem1D in Ok.
CurveFitProblem1DBuilder_build(self) ==
    IF self.func = None THEN Returns(Err(FuncMissed))
    ELSE IF self.x = None THEN Returns(Err(XMissed))
    ELSE IF self.y = None THEN Returns(Err(YMissed))
    ELSE
    LET func == self.func[1]
        x == self.x[1]
        y == self.y[1]
        n_obs == Len(x)
    IN  IF n_obs # Len(y) THEN Returns(Err(DataSizesDontMatch))
        ELSE IF self.inverse_error # None /\ Len(self.inverse_error[1]) # n_obs
        THEN Returns(Err(DataSizesDontMatch))
        ELSE build_parameters(self, func, x, y, n_obs)

(***************************************************************************)
(* residual_block.rs, parameters.rs                                        *)
(***************************************************************************)

\* Parameters::new on a Vec<Vec<f64>>, each inner vector named by its buffer
\* and length: it asserts that there is at least one vector.
Parameters_new(values) ==
    IF is_empty(values) THEN Panics
    ELSE Returns([values |-> values,
                  sizes |-> [j \in 1..Len(values) |-> values[j].len],
                  sizes_c_int |-> [j \in 1..Len(values) |-> values[j].len],
                  pointers |-> [j \in 1..Len(values) |-> values[j].buffer]])

\* Parameters::len / Parameters::sizes
Parameters_len(self) == Len(self.sizes)
Parameters_sizes(self) == self.sizes

\* CostFunction::num_parameters / CostFunction::parameter_sizes: the parameter
\* block sizes the cost function was declared with, and their number.
CostFunction_num_parameters(cost_function) == Len(cost_function.parameter_block_sizes)
CostFunction_parameter_sizes(cost_function) == cost_function.parameter_block_sizes

\* ResidualBlock::new comparing the number of parameters only.
ResidualBlock_new_count_only(parameters, cost_function) ==
    LET made == Parameters_new(parameters)
    IN  IF made.panicked THEN Panics
        ELSE IF Parameters_len(made.value[1]) # CostFunction_num_parameters(cost_function) THEN Panics
        ELSE Returns([parameters |-> made.value[1],
                      cost_function |-> cost_function,
                      loss_function |-> None])

\* ResidualBlock::new: Parameters::new, the assert_eq on the number of
\* parameters, then the assert_eq on each pair of the zipped sizes.
ResidualBlock_new(parameters, cost_function) ==
    LET made == Parameters_new(parameters)
    IN  IF made.panicked THEN Panics
        ELSE IF Parameters_len(made.value[1]) # CostFunction_num_parameters(cost_function) THEN Panics
        ELSE IF \E j \in 1..Min(Parameters_len(made.value[1]), CostFunction_num_parameters(cost_function)) :
                    Parameters_sizes(made.value[1])[j] # CostFunction_parameter_sizes(cost_function)[j]
             THEN Panics
        ELSE Returns([parameters |-> made.value[1],
                      cost_function |-> cost_function,
                      loss_function |-> None])

(***************************************************************************)
(* The state: one NllsProblem from NllsProblem::new() on, the builder that *)
(* may hold it, and what the calls made so far returned.                   *)
(***************************************************************************)
VARIABLES
    owner,                  \* who holds the NllsProblem value: "problem" (the caller),
                            \* "builder" (a ResidualBlockBuilder), "solved" (consumed by
                            \* a solve that returned Ok), "dropped" (consumed by a call
                            \* that returned Err)
    problem,                \* the NllsProblem: inner, parameter_storage, residual_blocks
    cost, loss, parameters, \* the ResidualBlockBuilder's fields
    native_cost_functions,  \* ffi::new_callback_cost_function calls so far
    ffi_solve_calls,        \* ffi::solve calls so far
    summaries,              \* SolverSummary::new calls so far
    result,                 \* the last call and the value it returned
    before,                 \* the problem and builder as the last call found them
    resolved,               \* per registered residual block, the parameter_indices its
                            \* build resolved its inputs to
    native_call,            \* the constancy call the last call made on ffi::Problem, if any
    chain,                  \* what the caller has given the builder it holds: the
                            \* arguments of the last set_cost and set_loss, and the
                            \* parameters given by the last set_parameters and by the
                            \* add_parameter calls after it
    evaluation,             \* the last native call of RustCostFunction::evaluate: its
                            \* arguments and what came of it
    workers,                \* the native worker threads inside ffi::solve: where each is
                            \* in its call of evaluate, and its locals
    cell,                   \* a Cell<usize> captured by cost closures
    builder,                \* the CurveFitProblem1DBuilder's fields
    fit,                    \* what CurveFitProblem1DBuilder::build came to
    callback,               \* one call of the curve-fit cost callback
    construction            \* one call of ResidualBlock::new

lifecycle_vars == <<owner, problem, cost, loss, parameters, native_cost_functions,
                    ffi_solve_calls, summaries, result, before, resolved, native_call,
                    chain>>
bridge_vars == <<evaluation, workers, cell>>
wrapper_vars == <<builder, fit, callback, construction>>
vars == <<lifecycle_vars, bridge_vars, wrapper_vars>>

\* What callers pass in.
CostInputs == {[func |-> "f", num_residuals |-> 1], [func |-> "g", num_residuals |-> 2]}
LossInputs == {"huber", "cauchy"}
BlockTemplates == {"lower", "upper"}
IndexInputs == 0..(MaxParams - 1)
ParamInputs ==
    {[tag |-> "Block", template |-> t, index |-> 0] : t \in BlockTemplates}
    \cup {[tag |-> "Index", template |-> "", index |-> i] : i \in IndexInputs}
InputLists == UNION {[1..n -> ParamInputs] : n \in 0..MaxParams}

\* The caller's parameter blocks: one component bounded below, or two components
\* of which the second is bounded above.
NewBlock(template, addr) ==
    IF template = "lower"
    THEN with_lower_bounds(ParameterBlock_new(addr, 1), <<Some(0)>>)
    ELSE with_upper_bounds(ParameterBlock_new(addr, 2), <<None, Some(1)>>)

\* Buffers of the blocks held by a storage and by a parameter list.
Buffers(storage, params) ==
    {values_ptr(storage[i]) : i \in 1..Len(storage)}
    \cup {values_ptr(params[j].block[1]) : j \in {k \in 1..Len(params) : params[k].tag = "Block"}}

\* The allocator gives the lowest address that is not in use.
Alloc(live) ==
    CHOOSE a \in 1..(Cardinality(live) + 1) :
        a \notin live /\ \A b \in 1..(a - 1) : b \in live

\* P: Into<ParameterBlockOrIndex> applied to each input in turn; a Vec<f64>
\* becomes a ParameterBlock on a freshly allocated buffer.
RECURSIVE IntoParameters(_, _)
IntoParameters(inputs, live) ==
    IF inputs = <<>> THEN <<>>
    ELSE LET input == Head(inputs)
         IN  IF input.tag = "Block"
             THEN LET addr == Alloc(live)
                  IN  <<ParamBlock(NewBlock(input.template, addr))>>
                      \o IntoParameters(Tail(inputs), live \cup {addr})
             ELSE <<ParamIndex(input.index)>> \o IntoParameters(Tail(inputs), live)

\* set_parameters keeping the parameters the builder already had.
set_parameters_extending(self_parameters, given) == self_parameters \o given

\* ResidualBlockBuilder::set_parameters: the collected list is assigned to
\* self.parameters.
set_parameters(self_parameters, given) == given

\* ResidualBlockBuilder::add_parameter: Vec::push on self.parameters.
add_parameter(self_parameters, parameter_block) == Append(self_parameters, parameter_block)

\* A builder that has been given nothing.
NoCalls == [cost |-> None, loss |-> None, inputs |-> <<>>]

\* What residual_block_builder and the builder's setters return: the builder.
BuilderReturned == [op |-> "builder", arg |-> 0, value |-> Ok("ResidualBlockBuilder")]

\* `before` after a call that is not looked into.
NoBefore ==
    [problem |-> NllsProblem_new, cost |-> None, loss |-> None, parameters |-> <<>>,
     cost_functions |-> 0, parameter_indices |-> <<>>]

\* `before` after a call that found the current state; parameter_indices is the
\* call's local list of resolved indices, if it made one.
Snapshot(parameter_indices) ==
    [problem |-> problem, cost |-> cost, loss |-> loss, parameters |-> parameters,
     cost_functions |-> native_cost_functions, parameter_indices |-> parameter_indices]

\* build_into_problem takes `self`: the builder and the problem in it are moved
\* into the call, and the problem comes back only inside Ok.
OwnerAfterBuildHandingBack(ok) == "problem"
OwnerAfterBuild(ok) == IF ok THEN "problem" ELSE "dropped"

\* solve takes `mut self`: the problem is moved into the call whatever it
\* returns, and Ok carries the parameters taken out of it.
OwnerAfterSolveBorrowing(ok) == IF ok THEN "solved" ELSE "problem"
OwnerAfterSolve(ok) == IF ok THEN "solved" ELSE "dropped"

\* No evaluation made and no worker thread started.
NoEvaluation == [made |-> FALSE]
BridgeIdle ==
    /\ evaluation = NoEvaluation
    /\ workers = <<>>
    /\ cell = 0

\* The state NllsProblem::new() returns in.
NewProblemState ==
    /\ owner = "problem"
    /\ problem = NllsProblem_new
    /\ cost = None
    /\ loss = None
    /\ parameters = <<>>
    /\ native_cost_functions = 0
    /\ ffi_solve_calls = 0
    /\ summaries = 0
    /\ result = [op |-> "new", arg |-> 0, value |-> Ok("NllsProblem")]
    /\ before = NoBefore
    /\ resolved = <<>>
    /\ native_call = None
    /\ chain = NoCalls

\* No curve-fit builder touched, no callback called, no ResidualBlock made.
NotBuilt == [made |-> FALSE]
NoCallback == [made |-> FALSE]
NoConstruction == [made |-> FALSE]
WrappersIdle ==
    /\ builder = CurveFitProblem1DBuilder_new
    /\ fit = NotBuilt
    /\ callback = NoCallback
    /\ construction = NoConstruction

Init == NewProblemState /\ BridgeIdle /\ WrappersIdle

\* NllsProblem::residual_block_builder(self)
ResidualBlockBuilder ==
    /\ owner = "problem"
    /\ Len(problem.residual_blocks) < MaxResidualBlocks
    /\ owner' = "builder"
    /\ cost' = None
    /\ loss' = None
    /\ parameters' = <<>>
    /\ result' = BuilderReturned
    /\ before' = NoBefore
    /\ native_call' = None
    /\ chain' = NoCalls
    /\ UNCHANGED <<problem, native_cost_functions, ffi_solve_calls, summaries, resolved>>
    /\ UNCHANGED <<bridge_vars, wrapper_vars>>

\* ResidualBlockBuilder::set_cost(self, func, num_residuals)
SetCost ==
    /\ owner = "builder"
    /\ \E c \in CostInputs :
          /\ cost' = Some(c)
          /\ chain' = [chain EXCEPT !.cost = Some(c)]
    /\ result' = BuilderReturned
    /\ before' = NoBefore
    /\ native_call' = None
    /\ UNCHANGED <<owner, problem, loss, parameters, native_cost_functions,
                   ffi_solve_calls, summaries, resolved>>
    /\ UNCHANGED <<bridge_vars, wrapper_vars>>

\* ResidualBlockBuilder::set_loss(self, loss)
SetLoss ==
    /\ owner = "builder"
    /\ \E l \in LossInputs :
          /\ loss' = Some(l)
          /\ chain' = [chain EXCEPT !.loss = Some(l)]
    /\ result' = BuilderReturned
    /\ before' = NoBefore
    /\ native_call' = None
    /\ UNCHANGED <<owner, problem, cost, parameters, native_cost_functions,
                   ffi_solve_calls, summaries, resolved>>
    /\ UNCHANGED <<bridge_vars, wrapper_vars>>

\* ResidualBlockBuilder::set_parameters(self, parameters): the new list
\* replaces the old one, whose blocks are dropped.  Addresses are names: the new
\* blocks get the lowest ones apart from the buffers that stay alive.
SetParameters ==
    /\ owner = "builder"
    /\ \E inputs \in InputLists :
          /\ parameters' =
                 set_parameters(parameters,
                                IntoParameters(inputs, Buffers(problem.parameter_storage, <<>>)))
          /\ chain' = [chain EXCEPT !.inputs = inputs]
    /\ result' = BuilderReturned
    /\ before' = NoBefore
    /\ native_call' = None
    /\ UNCHANGED <<owner, problem, cost, loss, native_cost_functions,
                   ffi_solve_calls, summaries, resolved>>
    /\ UNCHANGED <<bridge_vars, wrapper_vars>>

\* ResidualBlockBuilder::add_parameter(self, parameter_block)
AddParameter ==
    /\ owner = "builder"
    /\ Len(parameters) < MaxParams
    /\ \E input \in ParamInputs :
          /\ parameters' =
                 add_parameter(parameters,
                               IntoParameters(<<input>>,
                                              Buffers(problem.parameter_storage, parameters))[1])
          /\ chain' = [chain EXCEPT !.inputs = Append(@, input)]
    /\ result' = BuilderReturned
    /\ before' = NoBefore
    /\ native_call' = None
    /\ UNCHANGED <<owner, problem, cost, loss, native_cost_functions,
                   ffi_solve_calls, summaries, resolved>>
    /\ UNCHANGED <<bridge_vars, wrapper_vars>>

\* ResidualBlockBuilder::build_into_problem(self)
BuildIntoProblem ==
    /\ owner = "builder"
    /\ LET built == build_into_problem(problem, cost, loss, parameters, native_cost_functions)
       IN  /\ owner' = OwnerAfterBuild(built.result.ok)
           /\ problem' = built.problem
           /\ native_cost_functions' = built.cost_functions
           /\ result' = [op |-> "build_into_problem", arg |-> 0, value |-> built.result]
           /\ before' = Snapshot(built.parameter_indices)
           /\ resolved' = IF built.result.ok
                           THEN Append(resolved, built.parameter_indices)
                           ELSE resolved
    /\ cost' = None
    /\ loss' = None
    /\ parameters' = <<>>
    /\ native_call' = None
    /\ chain' = NoCalls
    /\ UNCHANGED <<ffi_solve_calls, summaries>>
    /\ UNCHANGED <<bridge_vars, wrapper_vars>>

\* NllsProblem::solve(self, options)
Solve ==
    /\ owner = "problem"
    /\ LET solved == solve(problem)
       IN  /\ owner' = OwnerAfterSolve(solved.result.ok)
           /\ problem' = [problem EXCEPT !.inner = solved.inner]
           /\ ffi_solve_calls' = ffi_solve_calls + solved.solve_calls
           /\ summaries' = summaries + solved.summaries
           /\ result' = [op |-> "solve", arg |-> 0, value |-> solved.result]
    /\ before' = Snapshot(<<>>)
    /\ native_call' = None
    /\ UNCHANGED <<cost, loss, parameters, native_cost_functions, resolved, chain>>
    /\ UNCHANGED <<bridge_vars, wrapper_vars>>

\* NllsProblem::set_parameter_block_constant(&mut self, block_index)
SetParameterBlockConstantAction ==
    /\ owner = "problem"
    /\ \E block_index \in IndexInputs :
          LET call == set_parameter_block_constant(problem, block_index)
          IN  /\ problem' = [problem EXCEPT !.inner = call.inner]
              /\ native_call' = call.native_call
              /\ result' = [op |-> "set_parameter_block_constant", arg |-> block_index,
                            value |-> call.result]
    /\ before' = Snapshot(<<>>)
    /\ UNCHANGED <<owner, cost, loss, parameters, native_cost_functions,
                   ffi_solve_calls, summaries, resolved, chain>>
    /\ UNCHANGED <<bridge_vars, wrapper_vars>>

\* NllsProblem::set_parameter_block_variable(&mut self, block_index)
SetParameterBlockVariableAction ==
    /\ owner = "problem"
    /\ \E block_index \in IndexInputs :
          LET call == set_parameter_block_variable(problem, block_index)
          IN  /\ problem' = [problem EXCEPT !.inner = call.inner]
              /\ native_call' = call.native_call
              /\ result' = [op |-> "set_parameter_block_variable", arg |-> block_index,
                            value |-> call.result]
    /\ before' = Snapshot(<<>>)
    /\ UNCHANGED <<owner, cost, loss, parameters, native_cost_functions,
                   ffi_solve_calls, summaries, resolved, chain>>
    /\ UNCHANGED <<bridge_vars, wrapper_vars>>

\* NllsProblem::is_parameter_block_constant(&self, block_index)
IsParameterBlockConstantAction ==
    /\ owner = "problem"
    /\ \E block_index \in IndexInputs :
          LET call == is_parameter_block_constant(problem, block_index)
          IN  /\ native_call' = call.native_call
              /\ result' = [op |-> "is_parameter_block_constant", arg |-> block_index,
                            value |-> call.result]
    /\ before' = Snapshot(<<>>)
    /\ UNCHANGED <<owner, problem, cost, loss, parameters, native_cost_functions,
                   ffi_solve_calls, summaries, resolved, chain>>
    /\ UNCHANGED <<bridge_vars, wrapper_vars>>

Next ==
    \/ ResidualBlockBuilder
    \/ SetCost
    \/ SetLoss
    \/ SetParameters
    \/ AddParameter
    \/ BuildIntoProblem
    \/ Solve
    \/ SetParameterBlockConstantAction
    \/ SetParameterBlockVariableAction
    \/ IsParameterBlockConstantAction

Spec == Init /\ [][Next]_vars

(***************************************************************************)
(* One build on its own: a builder holding a problem that one earlier      *)
(* build of new blocks has filled (or a fresh problem), with any cost and  *)
(* any parameter list; build_into_problem runs on it, and the returned     *)
(* problem is read by index through is_parameter_block_constant.           *)
(***************************************************************************)

\* The problem NllsProblem::new() ... set_cost(c).set_parameters(blocks)
\* .build_into_problem() returns, one new block per template given.
StoredBuild(c, templates) ==
    build_into_problem(
        NllsProblem_new, Some(c), None,
        IntoParameters([i \in 1..Len(templates) |->
                           [tag |-> "Block", template |-> templates[i], index |-> 0]],
                       {}),
        0)

StoredProblem(c, templates) ==
    IF templates = <<>> THEN NllsProblem_new ELSE StoredBuild(c, templates).problem

InitBuild ==
    /\ owner = "builder"
    /\ \E c \in CostInputs, n \in 0..MaxParams :
          \E templates \in [1..n -> BlockTemplates] :
              /\ problem = StoredProblem(c, templates)
              /\ resolved = IF templates = <<>> THEN <<>>
                            ELSE <<StoredBuild(c, templates).parameter_indices>>
    /\ cost \in {None} \cup {Some(c) : c \in CostInputs}
    /\ loss = None
    /\ \E inputs \in InputLists :
          /\ parameters = IntoParameters(inputs, Buffers(problem.parameter_storage, <<>>))
          /\ chain = [cost |-> cost, loss |-> loss, inputs |-> inputs]
    /\ native_cost_functions = Len(problem.inner.residual_blocks)
    /\ ffi_solve_calls = 0
    /\ summaries = 0
    /\ result = BuilderReturned
    /\ before = NoBefore
    /\ native_call = None
    /\ BridgeIdle
    /\ WrappersIdle

NextBuild ==
    \/ BuildIntoProblem
    \/ IsParameterBlockConstantAction

SpecBuild == InitBuild /\ [][NextBuild]_vars

(***************************************************************************)
(* One builder at work: residual_block_builder() has been called on a      *)
(* fresh problem or on one that an earlier build has filled; the caller    *)
(* chains setters on the builder and ends with build_into_problem.         *)
(***************************************************************************)

InitBuilder ==
    /\ owner = "builder"
    /\ \E c \in CostInputs, n \in 0..MaxParams :
          \E templates \in [1..n -> BlockTemplates] :
              /\ problem = StoredProblem(c, templates)
              /\ resolved = IF templates = <<>> THEN <<>>
                            ELSE <<StoredBuild(c, templates).parameter_indices>>
    /\ cost = None
    /\ loss = None
    /\ parameters = <<>>
    /\ chain = NoCalls
    /\ native_cost_functions = Len(problem.inner.residual_blocks)
    /\ ffi_solve_calls = 0
    /\ summaries = 0
    /\ result = BuilderReturned
    /\ before = NoBefore
    /\ native_call = None
    /\ BridgeIdle
    /\ WrappersIdle

NextBuilder ==
    \/ SetCost
    \/ SetLoss
    \/ SetParameters
    \/ AddParameter
    \/ BuildIntoProblem

SpecBuilder == InitBuilder /\ [][NextBuilder]_vars

(***************************************************************************)
(* One call of the cost bridge: the native engine calls                    *)
(* RustCostFunction::evaluate with the raw pointers of one evaluation.     *)
(***************************************************************************)

\* What the callers and the engine choose: the closure (by what it returns),
\* the lengths of the parameter blocks, the number of residuals, and which
\* Jacobian components the engine asks for (None: it passes a null array).
Closures == {[name |-> "accept", returns |-> TRUE], [name |-> "reject", returns |-> FALSE]}
SizeVectors == UNION {[1..n -> 1..MaxSize] : n \in 1..MaxParams}
ResidualCounts == 0..MaxResiduals
Requests(n) == {None} \cup {Some(m) : m \in [1..n -> BOOLEAN]}

\* Where the engine keeps the buffers of one evaluation.
ParameterBuffer(j) == 100 * j
ResidualBuffer == 50
JacobianBuffer(j) == 1000 * j

\* The arguments the engine passes to evaluate for a cost function declared
\* with these sizes: the array of parameter pointers at address 1, the residual
\* buffer, and a null pointer or the array of Jacobian pointers at address 11,
\* with a null entry for each component not asked for.
NativeCall(parameter_block_sizes, num_residuals, requested) ==
    LET n == Len(parameter_block_sizes)
    IN  [parameters |-> 1,
         residuals |-> ResidualBuffer,
         jacobians |-> IF requested = None THEN Null ELSE 11,
         heap |-> [a \in (1..n) \cup (IF requested = None THEN {} ELSE 11..(10 + n)) |->
                      IF a <= n THEN ParameterBuffer(a)
                      ELSE IF requested[1][a - 10] THEN JacobianBuffer(a - 10)
                      ELSE Null]]

\* The engine evaluates a cost function made by CostFunction::new.  A call
\* keeps nothing from the calls before it, so one call is followed.
Evaluate ==
    /\ evaluation = NoEvaluation
    /\ \E func \in Closures, parameter_sizes \in SizeVectors, num_residuals \in ResidualCounts :
          \E requested \in Requests(Len(parameter_sizes)) :
              LET declared == CostFunction_new(func, parameter_sizes, num_residuals)
                  captured == [func |-> func, parameter_sizes |-> parameter_sizes,
                               num_residuals |-> num_residuals]
                  call == NativeCall(declared.parameter_block_sizes,
                                     declared.num_residuals, requested)
              IN  evaluation' =
                      [made |-> TRUE,
                       func |-> func,
                       parameter_sizes |-> parameter_sizes,
                       num_residuals |-> num_residuals,
                       call |-> call,
                       outcome |-> evaluate(captured, call.heap, call.parameters,
                                            call.residuals, call.jacobians)]
    /\ UNCHANGED <<lifecycle_vars, wrapper_vars, workers, cell>>

InitBridge == NewProblemState /\ BridgeIdle /\ WrappersIdle

NextBridge == Evaluate

SpecBridge == InitBridge /\ [][NextBridge]_vars

(***************************************************************************)
(* Call-ins from the engine's worker threads during ffi::solve with        *)
(* num_threads > 1: each thread calls evaluate on the cost function of a   *)
(* residual block of its own, with a residual buffer of its own, and the   *)
(* steps of the calls interleave.  CostFunctionType is Box<dyn Fn(..)>     *)
(* with no Send or Sync bound, so a closure may capture a Cell shared with *)
(* the closure of another residual block; get and set on it from two       *)
(* threads are unsynchronized.                                             *)
(***************************************************************************)

\* The closures given to set_cost: "pure" computes the residual from the
\* parameters alone; "counting" captures an Rc<Cell<usize>>, writes the value
\* it finds there as residual and stores that value plus one.
ClosureKinds == {"pure", "counting"}

\* The value of the one parameter, which no evaluation writes.
ParameterValue == 7

\* The arguments of thread w's call-in: one parameter block of one element,
\* shared, one residual in the thread's own buffer, no Jacobian asked for.
WorkerCall(w) ==
    [NativeCall(<<1>>, 1, None) EXCEPT !.residuals = ResidualBuffer + 10 * w]

IdleWorker ==
    [pc |-> "idle", kind |-> "pure", views |-> None, read |-> 0, outputs |-> <<>>]

\* The engine calls evaluate on thread w: rust_func builds the views of this
\* call in its own locals and calls the closure with them.
Enter(w) ==
    /\ workers[w].pc = "idle"
    /\ Len(workers[w].outputs) < MaxEvaluations
    /\ \E kind \in ClosureKinds :
          LET call == WorkerCall(w)
              captured == [func |-> [name |-> kind, returns |-> TRUE],
                           parameter_sizes |-> <<1>>, num_residuals |-> 1]
              invoked == evaluate(captured, call.heap, call.parameters,
                                  call.residuals, call.jacobians)
          IN  workers' = [workers EXCEPT ![w] =
                              [@ EXCEPT !.pc = "called", !.kind = kind,
                                        !.views = Some(invoked.observed)]]
    /\ UNCHANGED <<lifecycle_vars, wrapper_vars, evaluation, cell>>

\* The closure reads what its residual depends on: the parameter, or the
\* captured cell (Cell::get).
ClosureRead(w) ==
    /\ workers[w].pc = "called"
    /\ workers' = [workers EXCEPT ![w] =
                       [@ EXCEPT !.pc = "read",
                                 !.read = IF workers[w].kind = "counting"
                                          THEN cell ELSE ParameterValue]]
    /\ UNCHANGED <<lifecycle_vars, wrapper_vars, evaluation, cell>>

\* The closure writes its residual through the residual view and, if it
\* counts, stores the value it read plus one (Cell::set).
ClosureWrite(w) ==
    /\ workers[w].pc = "read"
    /\ workers' = [workers EXCEPT ![w] =
                       [@ EXCEPT !.pc = "written",
                                 !.outputs = Append(@, [kind |-> workers[w].kind,
                                                        at |-> workers[w].views[1].residuals[1],
                                                        value |-> workers[w].read])]]
    /\ cell' = IF workers[w].kind = "counting" THEN workers[w].read + 1 ELSE cell
    /\ UNCHANGED <<lifecycle_vars, wrapper_vars, evaluation>>

\* The closure returns and evaluate returns its bool to the engine.
Return(w) ==
    /\ workers[w].pc = "written"
    /\ workers' = [workers EXCEPT ![w] = [@ EXCEPT !.pc = "idle", !.views = None]]
    /\ UNCHANGED <<lifecycle_vars, wrapper_vars, evaluation, cell>>

InitWorkers ==
    /\ NewProblemState
    /\ evaluation = NoEvaluation
    /\ workers = [w \in 1..NumThreads |-> IdleWorker]
    /\ cell = 0
    /\ WrappersIdle

NextWorkers ==
    \E w \in 1..NumThreads :
        \/ Enter(w)
        \/ ClosureRead(w)
        \/ ClosureWrite(w)
        \/ Return(w)

SpecWorkers == InitWorkers /\ [][NextWorkers]_vars

(***************************************************************************)
(* The curve-fit builder: CurveFitProblem1D::builder(), any chain of its   *)
(* setters, then build, which consumes the builder.  `builder` keeps the   *)
(* fields as build found them.                                             *)
(***************************************************************************)

\* What callers pass in.  A slice of f64 is given by its length (its i-th
\* element is i); a bounds slice bounds its first parameter and leaves the
\* others unbounded; a slice of constant indexes names one parameter, or the
\* first one and another, in or out of range.
Data(n) == [i \in 1..n |-> i]
DataSlices == {Data(n) : n \in 0..MaxObs}
ModelFunctions == {"model"}
InitialGuesses == {Data(n) : n \in 0..MaxParams}
BoundSlices(bound) ==
    {[i \in 1..n |-> IF i = 1 THEN Some(bound) ELSE None] : n \in 0..MaxParams}
ConstantSlices ==
    {<<>>} \cup {<<i>> : i \in 0..MaxParams} \cup {<<0, i>> : i \in 1..MaxParams}

\* CurveFitProblem1DBuilder::func
Builder_func ==
    /\ ~fit.made
    /\ \E f \in ModelFunctions : builder' = [builder EXCEPT !.func = Some(f)]
    /\ UNCHANGED <<lifecycle_vars, bridge_vars, fit, callback, construction>>

\* CurveFitProblem1DBuilder::x
Builder_x ==
    /\ ~fit.made
    /\ \E x \in DataSlices : builder' = [builder EXCEPT !.x = Some(x)]
    /\ UNCHANGED <<lifecycle_vars, bridge_vars, fit, callback, construction>>

\* CurveFitProblem1DBuilder::y
Builder_y ==
    /\ ~fit.made
    /\ \E y \in DataSlices : builder' = [builder EXCEPT !.y = Some(y)]
    /\ UNCHANGED <<lifecycle_vars, bridge_vars, fit, callback, construction>>

\* CurveFitProblem1DBuilder::inverse_error
Builder_inverse_error ==
    /\ ~fit.made
    /\ \E inv_err \in DataSlices :
          builder' = [builder EXCEPT !.inverse_error = Some(inv_err)]
    /\ UNCHANGED <<lifecycle_vars, bridge_vars, fit, callback, construction>>

\* CurveFitProblem1DBuilder::parameters
Builder_parameters ==
    /\ ~fit.made
    /\ \E guess \in InitialGuesses :
          builder' = [builder EXCEPT !.parameters = Some(guess)]
    /\ UNCHANGED <<lifecycle_vars, bridge_vars, fit, callback, construction>>

\* CurveFitProblem1DBuilder::lower_bounds
Builder_lower_bounds ==
    /\ ~fit.made
    /\ \E lower_bounds \in BoundSlices(0) :
          builder' = [builder EXCEPT !.lower_bounds = Some(lower_bounds)]
    /\ UNCHANGED <<lifecycle_vars, bridge_vars, fit, callback, construction>>

\* CurveFitProblem1DBuilder::upper_bounds
Builder_upper_bounds ==
    /\ ~fit.made
    /\ \E upper_bounds \in BoundSlices(9) :
          builder' = [builder EXCEPT !.upper_bounds = Some(upper_bounds)]
    /\ UNCHANGED <<lifecycle_vars, bridge_vars, fit, callback, construction>>

\* CurveFitProblem1DBuilder::constant
Builder_constant ==
    /\ ~fit.made
    /\ \E indexes \in ConstantSlices :
          builder' = [builder EXCEPT !.constant_parameters = Some(indexes)]
    /\ UNCHANGED <<lifecycle_vars, bridge_vars, fit, callback, construction>>

\* CurveFitProblem1DBuilder::loss
Builder_loss ==
    /\ ~fit.made
    /\ \E l \in LossInputs : builder' = [builder EXCEPT !.loss = Some(l)]
    /\ UNCHANGED <<lifecycle_vars, bridge_vars, fit, callback, construction>>

\* CurveFitProblem1DBuilder::build(self)
Builder_build ==
    /\ ~fit.made
    /\ fit' = [made |-> TRUE, outcome |-> CurveFitProblem1DBuilder_build(builder)]
    /\ UNCHANGED <<lifecycle_vars, bridge_vars, builder, callback, construction>>

InitCurveFit == NewProblemState /\ BridgeIdle /\ WrappersIdle

NextCurveFit ==
    \/ Builder_func
    \/ Builder_x
    \/ Builder_y
    \/ Builder_inverse_error
    \/ Builder_parameters
    \/ Builder_lower_bounds
    \/ Builder_upper_bounds
    \/ Builder_constant
    \/ Builder_loss
    \/ Builder_build

SpecCurveFit == InitCurveFit /\ [][NextCurveFit]_vars

(***************************************************************************)
(* ResidualBlock::new called with some parameters and some cost function,  *)
(* and called again with the same arguments.                               *)
(***************************************************************************)

\* The vectors a caller passes: any lengths, each vector on a buffer of its own.
ParameterVectors ==
    UNION {{[j \in 1..n |-> [buffer |-> j, len |-> lens[j]]] : lens \in [1..n -> 0..MaxSize]} :
           n \in 0..MaxParams}
\* The sizes a cost function can be declared with.
DeclaredSizes == UNION {[1..n -> 0..MaxSize] : n \in 0..MaxParams}

\* ResidualBlock::new(parameters, cost_function)
ResidualBlockNew ==
    /\ ~construction.made
    /\ \E parameters_given \in ParameterVectors, sizes \in DeclaredSizes :
          LET cost_function == CostFunction_new([name |-> "accept", returns |-> TRUE], sizes, 1)
          IN  construction' =
                  [made |-> TRUE,
                   parameters |-> parameters_given,
                   cost_function |-> cost_function,
                   outcomes |-> <<ResidualBlock_new(parameters_given, cost_function)>>]
    /\ UNCHANGED <<lifecycle_vars, bridge_vars, builder, fit, callback>>

\* ResidualBlock::new called again with equal arguments.
ResidualBlockNewAgain ==
    /\ construction.made
    /\ Len(construction.outcomes) < MaxAttempts
    /\ construction' =
           [construction EXCEPT !.outcomes =
               Append(@, ResidualBlock_new(construction.parameters,
                                           construction.cost_function))]
    /\ UNCHANGED <<lifecycle_vars, bridge_vars, builder, fit, callback>>

InitResidualBlock == NewProblemState /\ BridgeIdle /\ WrappersIdle

NextResidualBlock ==
    \/ ResidualBlockNew
    \/ ResidualBlockNewAgain

SpecResidualBlock == InitResidualBlock /\ [][NextResidualBlock]_vars

(***************************************************************************)
(* One call of the cost callback of a CurveFitProblem1D: the engine         *)
(* evaluates the closure that cost_function made from the data and a model *)
(* function.                                                               *)
(***************************************************************************)

\* The engine calls the closure: n data points (x[i] = i), with or without
\* inverse errors, a model function that returns any bool at each point, one
\* one-element block per parameter, and any Jacobian request.
CostCallback ==
    /\ ~callback.made
    /\ \E n \in 0..MaxResiduals, weighted \in BOOLEAN, num_parameters \in 1..MaxParams :
          \E model \in [1..n -> BOOLEAN], requested \in Requests(num_parameters) :
              LET captured == CurveFitProblem1D_cost_function(
                                  Data(n), Data(n),
                                  IF weighted THEN Some(Data(n)) ELSE None, model)
                  parameter_slices == [j \in 1..num_parameters |-> <<j>>]
              IN  callback' =
                      [made |-> TRUE,
                       captured |-> captured,
                       jacobians |-> requested,
                       outcome |-> cost_function_closure(captured, parameter_slices,
                                                         n, requested)]
    /\ UNCHANGED <<lifecycle_vars, bridge_vars, builder, fit, construction>>

InitCurveCost == NewProblemState /\ BridgeIdle /\ WrappersIdle

NextCurveCost == CostCallback

SpecCurveCost == InitCurveCost /\ [][NextCurveCost]_vars

TypeOK == owner \in {"problem", "builder", "solved", "dropped"}

(***************************************************************************)
(* Vocabulary of the properties, stated on the inputs of the last call     *)
(* without running extend.                                                 *)
(***************************************************************************)
IsBuild == result.op = "build_into_problem"
IsConstancyCall ==
    result.op \in {"set_parameter_block_constant", "set_parameter_block_variable",
                   "is_parameter_block_constant"}
GivenParameters == before.parameters
LenBefore == Len(before.problem.parameter_storage)
\* New blocks among the inputs that come before input j.
NewBefore(j) == Cardinality({k \in 1..(j - 1) : GivenParameters[k].tag = "Block"})
\* Storage length when input j is met.
LenAt(j) == LenBefore + NewBefore(j)
\* Inputs that name an index not in the storage when they are met.
BadPositions ==
    {j \in 1..Len(GivenParameters) :
        /\ GivenParameters[j].tag = "Index"
        /\ GivenParameters[j].index >= LenAt(j)}
FailedWith(tag) == ~result.value.ok /\ result.value.error.tag = tag
Malformed == before.cost = None \/ GivenParameters = <<>> \/ BadPositions # {}

\* C1: solve on a problem with no residual block returns Err(NoResidualBlocks)
\* without a call of ffi::solve, a summary or a touched buffer; with at least
\* one residual block it calls ffi::solve exactly once and returns Ok.
C1_SolveNeedsResidualBlocks ==
    result.op = "solve" =>
        IF Len(before.problem.residual_blocks) = 0
        THEN /\ result.value = Err(NoResidualBlocks)
             /\ ffi_solve_calls = 0
             /\ summaries = 0
             /\ problem = before.problem
             /\ problem.inner.solved = {}
        ELSE /\ result.value.ok
             /\ ffi_solve_calls = 1
             /\ summaries = 1

C1_Witness ==
    /\ result.op = "solve"
    /\ result.value = Err(NoResidualBlocks)
    /\ ffi_solve_calls = 0

\* C2: solve happens at most once and nothing can be done with the problem after
\* it, whatever it returned; while a builder holds the problem no solve and no
\* constancy call acts on it; a block added to a problem that has blocks leaves
\* it with the caller and solvable.
C2_Step ==
    /\ result.op # "solve"
    /\ ffi_solve_calls' <= 1
    /\ owner = "builder" =>
          /\ ffi_solve_calls' = ffi_solve_calls
          /\ problem'.inner.constant = problem.inner.constant
          /\ result'.op \in {"builder", "build_into_problem"}
    /\ (/\ result'.op = "build_into_problem"
        /\ result'.value.ok
        /\ Len(problem.residual_blocks) >= 1) =>
          /\ owner' = "problem"
          /\ solve(problem').result.ok

C2_Lifecycle == [][C2_Step]_vars

C2_Witness ==
    /\ result.op = "solve"
    /\ result.value.ok
    /\ Len(problem.residual_blocks) = 2

C4_MissingParameters ==
    (IsBuild /\ before.cost # None /\ GivenParameters = <<>>) =>
        /\ result.value = Err(MissingParameters)
        /\ problem = before.problem
        /\ native_cost_functions = before.cost_functions

C4_Witness ==
    /\ IsBuild
    /\ before.cost # None
    /\ GivenParameters = <<>>
    /\ result.value = Err(MissingParameters)

\* C5: the first by-index input k met while the storage holds len <= k blocks
\* makes the build fail with IndexOutOfBounds{index: k, len}, len being the
\* length at that moment; a by-index input k < len resolves to k; get_block(k)
\* errs, with k and the length, exactly when k >= length.
C5_IndexOutOfBounds ==
    /\ (IsBuild /\ GivenParameters # <<>>) =>
          /\ \A j \in BadPositions :
                (\A k \in BadPositions : j <= k) =>
                    result.value = Err(IndexOutOfBounds(GivenParameters[j].index, LenAt(j)))
          /\ BadPositions = {} =>
                /\ ~FailedWith("IndexOutOfBounds")
                /\ \A j \in 1..Len(GivenParameters) :
                      GivenParameters[j].tag = "Index" =>
                          before.parameter_indices[j] = GivenParameters[j].index
    /\ IsConstancyCall =>
          IF result.arg >= LenBefore
          THEN result.value = Err(IndexOutOfBounds(result.arg, LenBefore))
          ELSE result.value.ok

C5_Witness ==
    /\ IsBuild
    /\ FailedWith("IndexOutOfBounds")
    /\ result.value.error.len > LenBefore
    /\ result.value.error.index = result.value.error.len

\* C6: extend validates each by-index input against the length at its own
\* position, so the call fails exactly when some input is out of range where it
\* stands; otherwise it returns one index per input, in order, the j-th new
\* block getting (length before) + j and sitting at that index.
C6_InOrder ==
    (IsBuild /\ GivenParameters # <<>>) =>
        /\ (BadPositions # {}) <=> FailedWith("IndexOutOfBounds")
        /\ BadPositions = {} =>
              /\ Len(before.parameter_indices) = Len(GivenParameters)
              /\ \A j \in 1..Len(GivenParameters) :
                    IF GivenParameters[j].tag = "Block"
                    THEN /\ before.parameter_indices[j] = LenBefore + NewBefore(j)
                         /\ problem.parameter_storage[before.parameter_indices[j] + 1]
                                = GivenParameters[j].block[1]
                    ELSE before.parameter_indices[j] = GivenParameters[j].index

C6_Witness ==
    /\ IsBuild
    /\ Len(GivenParameters) = 2
    /\ GivenParameters[1].tag = "Index"
    /\ GivenParameters[1].index = LenBefore
    /\ GivenParameters[2].tag = "Block"
    /\ FailedWith("IndexOutOfBounds")

\* C7: a malformed build request (no cost, no parameters, or an index out of
\* range) returns an error with no native cost function created and no
\* add_residual_block or bound call made.
C7_NoNativeCallOnError ==
    (IsBuild /\ Malformed) =>
        /\ ~result.value.ok
        /\ native_cost_functions = before.cost_functions
        /\ problem.inner = before.problem.inner
        /\ problem.residual_blocks = before.problem.residual_blocks

C7_Witness ==
    /\ IsBuild
    /\ before.cost # None
    /\ BadPositions # {}
    /\ Len(problem.parameter_storage) > LenBefore
    /\ ~result.value.ok

\* C8 (as claimed): after build_into_problem fails the problem is still with
\* the caller.
C8_ProblemUsableAfterBuildError ==
    (IsBuild /\ ~result.value.ok) => owner = "problem"

\* C8 (amended): a build error consumes the problem together with the builder:
\* only the error comes back, the registered residual blocks and the native
\* problem are as they were, and no call on the problem is possible afterwards.
C8_BuildErrorConsumesProblem ==
    (IsBuild /\ ~result.value.ok) =>
        /\ owner = "dropped"
        /\ problem.residual_blocks = before.problem.residual_blocks
        /\ problem.inner = before.problem.inner
        /\ ~ENABLED Next

C8_Witness ==
    /\ IsBuild
    /\ ~result.value.ok
    /\ Len(before.problem.residual_blocks) >= 1
    /\ owner = "dropped"

\* C9: a successful build_into_problem gives the problem back with exactly one
\* more residual block, the storage longer by the number of new-block inputs,
\* everything registered before unchanged and in place, and returns the id of
\* the last residual block.
C9_SuccessfulBuildFrame ==
    (IsBuild /\ result.value.ok) =>
        LET old == before.problem
            n == Len(old.residual_blocks)
            news == {j \in 1..Len(GivenParameters) : GivenParameters[j].tag = "Block"}
        IN  /\ owner = "problem"
            /\ Len(problem.residual_blocks) = n + 1
            /\ SubSeq(problem.residual_blocks, 1, n) = old.residual_blocks
            /\ Len(problem.inner.residual_blocks) = n + 1
            /\ SubSeq(problem.inner.residual_blocks, 1, n) = old.inner.residual_blocks
            /\ Len(problem.parameter_storage) = LenBefore + Cardinality(news)
            /\ SubSeq(problem.parameter_storage, 1, LenBefore) = old.parameter_storage
            /\ result.value.value = problem.residual_blocks[n + 1].id
            /\ result.value.value = problem.inner.residual_blocks[n + 1].id

C9_Witness ==
    /\ IsBuild
    /\ result.value.ok
    /\ Len(before.problem.residual_blocks) = 1
    /\ \E j \in 1..Len(GivenParameters) : GivenParameters[j].tag = "Index"
    /\ \E j \in 1..Len(GivenParameters) : GivenParameters[j].tag = "Block"

\* C10: the pointer recorded for a block is the address of its value buffer in
\* every state, blocks do not share a buffer, and every pointer in a residual
\* block's pointer array or held by the native problem is the buffer of a block
\* in the storage.
C10_PointerStability ==
    LET storage == problem.parameter_storage
        buffers == {values_ptr(storage[i]) : i \in 1..Len(storage)}
    IN  /\ \A i \in 1..Len(storage) : pointer_mut(storage[i]) = values_ptr(storage[i])
        /\ Cardinality(buffers) = Len(storage)
        /\ \A k \in 1..Len(problem.residual_blocks) :
              \A j \in 1..Len(problem.residual_blocks[k].parameter_pointers) :
                  problem.residual_blocks[k].parameter_pointers[j] \in buffers
        /\ NativePointers(problem.inner) \subseteq buffers
        /\ problem.inner.solved \subseteq buffers

C10_Witness ==
    /\ owner = "problem"
    /\ Len(problem.parameter_storage) >= 3
    /\ Len(problem.residual_blocks) = 2

C12_Step ==
    LET old == problem.parameter_storage
        new == problem'.parameter_storage
    IN  /\ Len(new) >= Len(old)
        /\ \A i \in 0..(Len(old) - 1) :
              /\ get_block(new, i).ok
              /\ get_block(new, i).value = get_block(old, i).value
        /\ result'.op # "build_into_problem" => new = old

C12_AppendOnly == [][C12_Step]_vars

C12_Witness ==
    /\ IsBuild
    /\ LenBefore = 2
    /\ Len(problem.parameter_storage) > LenBefore
    /\ SubSeq(problem.parameter_storage, 1, LenBefore) = before.problem.parameter_storage

\* C13: a successful solve returns one value vector per block of the storage,
\* the i-th being the buffer of block i with the number of components the
\* block was made with (the length of the bounds declared on it); no buffer
\* comes twice, however many residual blocks point to it.
C13_SolutionShape ==
    (result.op = "solve" /\ result.value.ok) =>
        LET storage == before.problem.parameter_storage
            solution == result.value.value.parameters
            declared(block) == IF block.lower_bounds # None
                               THEN Len(block.lower_bounds[1])
                               ELSE Len(block.upper_bounds[1])
        IN  /\ Len(solution) = Len(storage)
            /\ \A i \in 1..Len(storage) :
                  /\ solution[i].buffer = values_ptr(storage[i])
                  /\ solution[i].len = storage[i].size
                  /\ solution[i].len = declared(storage[i])
            /\ Cardinality({solution[i].buffer : i \in 1..Len(solution)}) = Len(solution)
            /\ NativePointers(problem.inner)
                  = {solution[i].buffer : i \in 1..Len(solution)}

C13_Witness ==
    /\ result.op = "solve"
    /\ result.value.ok
    /\ Len(result.value.value.parameters) = 2
    /\ result.value.value.parameters[1].len # result.value.value.parameters[2].len
    /\ Len(resolved) = 2
    /\ \E i \in 1..Len(resolved[1]), j \in 1..Len(resolved[2]) :
          resolved[1][i] = resolved[2][j]

C15_DeclaredSizes ==
    LET storage == problem.parameter_storage
        native == problem.inner.residual_blocks
    IN  /\ Len(native) = Len(resolved)
        /\ \A a \in 1..Len(native) :
              /\ native[a].cost_function.parameter_block_sizes
                    = [j \in 1..Len(resolved[a]) |-> storage[resolved[a][j] + 1].size]
              /\ native[a].num_parameter_blocks = Len(native[a].parameter_blocks)
              /\ native[a].num_parameter_blocks
                    = Len(native[a].cost_function.parameter_block_sizes)
        /\ (IsBuild /\ result.value.ok) =>
              LET sizes == native[Len(native)].cost_function.parameter_block_sizes
              IN  /\ Len(sizes) = Len(GivenParameters)
                  /\ \A j \in 1..Len(GivenParameters) :
                        sizes[j] = IF GivenParameters[j].tag = "Block"
                                   THEN GivenParameters[j].block[1].size
                                   ELSE storage[GivenParameters[j].index + 1].size

C15_Witness ==
    /\ IsBuild
    /\ result.value.ok
    /\ Len(GivenParameters) = 2
    /\ GivenParameters[1].tag = "Block"
    /\ GivenParameters[2].tag = "Index"
    /\ LET sizes == problem.inner.residual_blocks[Len(problem.inner.residual_blocks)]
                        .cost_function.parameter_block_sizes
       IN  sizes[1] # sizes[2]

\* C16: a constancy call with an index that is not below the number of blocks
\* returns IndexOutOfBounds with that index and that number, makes no native
\* call and changes nothing; with a valid index i it makes the one native call
\* of its name with the pointer of block i, so that block i becomes constant
\* (set_parameter_block_constant), variable (set_parameter_block_variable) or
\* is reported as it stands (is_parameter_block_constant), every other block
\* keeps its constancy, and is_parameter_block_constant(i) then reports what
\* was set; no other call changes the constancy of a block.
C16_Step ==
    LET storage == problem.parameter_storage
        len == Len(storage)
        i == result'.arg
        constant == problem.inner.constant
        now == problem'.inner.constant
        native == [set_parameter_block_constant |-> "SetParameterBlockConstant",
                   set_parameter_block_variable |-> "SetParameterBlockVariable",
                   is_parameter_block_constant |-> "IsParameterBlockConstant"]
    IN  IF result'.op \in DOMAIN native
        THEN /\ problem' = [problem EXCEPT !.inner.constant = now]
             /\ IF i >= len
                THEN /\ result'.value = Err(IndexOutOfBounds(i, len))
                     /\ native_call' = None
                     /\ now = constant
                ELSE LET p == pointer_mut(storage[i + 1])
                     IN  /\ native_call' = Some([fn |-> native[result'.op], values |-> p])
                         /\ \A b \in 1..len :
                               b # i + 1 =>
                                   (pointer_mut(storage[b]) \in now
                                      <=> pointer_mut(storage[b]) \in constant)
                         /\ result'.op = "set_parameter_block_constant" =>
                               /\ result'.value = Ok("unit")
                               /\ p \in now
                               /\ is_parameter_block_constant(problem', i).result = Ok(TRUE)
                         /\ result'.op = "set_parameter_block_variable" =>
                               /\ result'.value = Ok("unit")
                               /\ p \notin now
                               /\ is_parameter_block_constant(problem', i).result = Ok(FALSE)
                         /\ result'.op = "is_parameter_block_constant" =>
                               /\ result'.value = Ok(p \in constant)
                               /\ now = constant
        ELSE /\ now = constant
             /\ native_call' = None

C16_Constancy == [][C16_Step]_vars

C16_Witness ==
    /\ result.op = "is_parameter_block_constant"
    /\ result.arg = 1
    /\ result.value = Ok(TRUE)
    /\ Len(problem.parameter_storage) >= 2
    /\ Cardinality(problem.inner.constant) = 1
    /\ native_call # None

\* C17: the closure sees None for the Jacobians exactly when the engine passed
\* a null array; otherwise it sees Some with one slot per parameter block, and
\* slot i is None exactly when the i-th pointer of the array is null.
C17_NullJacobianPassthrough ==
    evaluation.made =>
        LET call == evaluation.call
            seen == evaluation.outcome.observed.jacobians
            n == Len(evaluation.parameter_sizes)
        IN  /\ seen = None <=> call.jacobians = Null
            /\ call.jacobians # Null =>
                  /\ Len(seen[1]) = n
                  /\ \A i \in 1..n :
                        seen[1][i] = None <=> call.heap[call.jacobians + (i - 1)] = Null

C17_Witness ==
    /\ evaluation.made
    /\ Len(evaluation.parameter_sizes) = 2
    /\ evaluation.call.jacobians # Null
    /\ evaluation.call.heap[evaluation.call.jacobians] = Null
    /\ evaluation.call.heap[evaluation.call.jacobians + 1] # Null
    /\ evaluation.outcome.observed.jacobians[1][1] = None
    /\ evaluation.outcome.observed.jacobians[1][2] # None

\* C18: for sizes s_1..s_n and r residuals the closure sees n parameter slices,
\* the j-th being the s_j elements of the j-th parameter buffer, the r elements
\* of the residual buffer, and for each Jacobian component i asked for r rows
\* of s_i elements, row j column k being element j * s_i + k of the i-th flat
\* buffer.
C18_Shape ==
    evaluation.made =>
        LET call == evaluation.call
            seen == evaluation.outcome.observed
            sizes == evaluation.parameter_sizes
            r == evaluation.num_residuals
            n == Len(sizes)
        IN  /\ Len(seen.parameters) = n
            /\ \A j \in 1..n :
                  /\ Len(seen.parameters[j]) = sizes[j]
                  /\ \A k \in 0..(sizes[j] - 1) :
                        seen.parameters[j][k + 1] = call.heap[call.parameters + (j - 1)] + k
            /\ Len(seen.residuals) = r
            /\ \A k \in 0..(r - 1) : seen.residuals[k + 1] = call.residuals + k
            /\ call.jacobians # Null =>
                  \A i \in 1..n :
                      LET flat == call.heap[call.jacobians + (i - 1)]
                      IN  flat # Null =>
                              LET rows == seen.jacobians[1][i][1]
                              IN  /\ Len(rows) = r
                                  /\ \A j \in 0..(r - 1) :
                                        /\ Len(rows[j + 1]) = sizes[i]
                                        /\ \A k \in 0..(sizes[i] - 1) :
                                              rows[j + 1][k + 1] = flat + j * sizes[i] + k

C18_Witness ==
    /\ evaluation.made
    /\ evaluation.parameter_sizes = <<1, 2>>
    /\ evaluation.num_residuals = 2
    /\ evaluation.call.jacobians # Null
    /\ evaluation.call.heap[evaluation.call.jacobians + 1] # Null
    /\ Len(evaluation.outcome.observed.jacobians[1][2][1]) = 2
    /\ evaluation.outcome.observed.jacobians[1][2][1][2][1]
          = evaluation.call.heap[evaluation.call.jacobians + 1] + 2

\* C19: one native call of evaluate calls the closure once and returns to the
\* engine the bool the closure returned.
C19_BoolPassthrough ==
    evaluation.made =>
        /\ evaluation.outcome.calls = 1
        /\ evaluation.outcome.returned = evaluation.func.returns
        /\ evaluation.outcome.returned \in BOOLEAN

C19_Witness ==
    /\ evaluation.made
    /\ evaluation.func.returns = FALSE
    /\ evaluation.outcome.returned = FALSE
    /\ evaluation.outcome.calls = 1

FitErr(tag) ==
    /\ fit.made
    /\ ~fit.outcome.panicked
    /\ ~fit.outcome.value[1].ok
    /\ fit.outcome.value[1].error.tag = tag
FitOk == fit.made /\ ~fit.outcome.panicked /\ fit.outcome.value[1].ok
FitProblem == fit.outcome.value[1].value
DataLengthsDiffer ==
    \/ Len(builder.x[1]) # Len(builder.y[1])
    \/ builder.inverse_error # None /\ Len(builder.inverse_error[1]) # Len(builder.x[1])

\* C21: CurveFitProblem1DBuilder::build returns an error and no problem when a
\* mandatory field is missing or the data lengths are inconsistent, the first
\* of these that applies: FuncMissed without a model function; XMissed without
\* x; YMissed without y; DataSizesDontMatch when x and y differ in length or
\* inverse_error is given with a length other than x's; ParametersMissed
\* without initial parameters; LowerBoundarySizeMismatch when lower bounds are
\* given with a length other than the number of parameters.
C21_BuildErrorOrder ==
    fit.made =>
        IF builder.func = None THEN FitErr("FuncMissed")
        ELSE IF builder.x = None THEN FitErr("XMissed")
        ELSE IF builder.y = None THEN FitErr("YMissed")
        ELSE IF DataLengthsDiffer THEN FitErr("DataSizesDontMatch")
        ELSE IF builder.parameters = None THEN FitErr("ParametersMissed")
        ELSE IF /\ builder.lower_bounds # None
                /\ Len(builder.lower_bounds[1]) # Len(builder.parameters[1])
             THEN FitErr("LowerBoundarySizeMismatch")
        ELSE TRUE

\* A build that found x and y of different lengths, no initial parameters and
\* lower bounds: the data lengths are reported.
C21_Witness ==
    /\ FitErr("DataSizesDontMatch")
    /\ builder.parameters = None
    /\ builder.inverse_error = None
    /\ builder.lower_bounds # None

\* build got past the checks of C21: every mandatory field is set, the data
\* lengths agree and lower bounds, if given, have one entry per parameter.
PassedLowerBounds ==
    /\ fit.made
    /\ builder.func # None /\ builder.x # None /\ builder.y # None
    /\ ~DataLengthsDiffer
    /\ builder.parameters # None
    /\ builder.lower_bounds # None =>
           Len(builder.lower_bounds[1]) = Len(builder.parameters[1])

\* C22: upper bounds given to CurveFitProblem1DBuilder::upper_bounds take
\* effect: a slice whose length differs from the number of parameters makes
\* build fail with UpperBoundarySizeMismatch, and in a built problem the block
\* of every parameter i whose entry is Some(ub) carries the upper bound ub,
\* which the native problem was told, while a None entry leaves it unbounded
\* above.
C22_UpperBoundsTakeEffect ==
    (PassedLowerBounds /\ builder.upper_bounds # None) =>
        LET upper_bounds == builder.upper_bounds[1]
        IN  IF Len(upper_bounds) # Len(builder.parameters[1])
            THEN FitErr("UpperBoundarySizeMismatch")
            ELSE FitOk =>
                   \A i \in 1..Len(upper_bounds) :
                       LET block == FitProblem.parameter_storage[i]
                       IN  IF upper_bounds[i] # None
                           THEN /\ block.upper_bounds = Some(<<upper_bounds[i]>>)
                                /\ \E k \in 1..Len(FitProblem.inner.bound_calls) :
                                      FitProblem.inner.bound_calls[k] =
                                          [fn |-> "SetParameterUpperBound",
                                           values |-> pointer_mut(block),
                                           index |-> 0,
                                           bound |-> upper_bounds[i][1]]
                           ELSE block.upper_bounds = None

\* C23: with constant indexes given to CurveFitProblem1DBuilder::constant, a
\* listed index that is not below the number of parameters makes build return
\* Err(ParameterBlockStorageError(IndexOutOfBounds)) and no problem; otherwise
\* in the built problem parameter i is block i, of one element, and it is
\* constant exactly if i is listed.
C23_ConstantParameters ==
    (PassedLowerBounds /\ builder.constant_parameters # None) =>
        LET indexes == builder.constant_parameters[1]
            listed == {indexes[k] : k \in 1..Len(indexes)}
            n == Len(builder.parameters[1])
        IN  IF \E i \in listed : i >= n
            THEN /\ FitErr("ParameterBlockStorageError")
                 /\ fit.outcome.value[1].error.source.tag = "IndexOutOfBounds"
            ELSE FitOk =>
                   /\ Len(FitProblem.parameter_storage) = n
                   /\ \A i \in 0..(n - 1) :
                          LET block == FitProblem.parameter_storage[i + 1]
                          IN  /\ block.size = 1
                              /\ IsParameterBlockConstant(FitProblem.inner, values_ptr(block))
                                     <=> i \in listed

\* The arguments of the ResidualBlock::new calls disagree in shape: the number
\* of vectors is not the number of declared parameter blocks, or some vector
\* has not the length declared at its position.
ShapeMismatch ==
    LET given == construction.parameters
        declared == construction.cost_function.parameter_block_sizes
    IN  \/ Len(given) # Len(declared)
        \/ \E j \in 1..Len(given) : j <= Len(declared) /\ given[j].len # declared[j]

\* Every call made so far panicked (TRUE) or returned (FALSE) as `panic` says,
\* and a call that returned gave a block holding the given parameters, the
\* given cost function and no loss function.
OutcomesAre(panic) ==
    \A k \in 1..Len(construction.outcomes) :
        LET outcome == construction.outcomes[k]
        IN  /\ outcome.panicked = panic
            /\ ~outcome.panicked =>
                   /\ outcome.value[1].parameters.values = construction.parameters
                   /\ outcome.value[1].cost_function = construction.cost_function
                   /\ outcome.value[1].loss_function = None

\* C24 as stated: ResidualBlock::new panics exactly when the number of
\* parameter vectors differs from the cost function's number of parameter
\* blocks or some vector's length differs from the declared size at its
\* position, the same on every call with the same arguments; a call that does
\* not panic gives a block with the given parameters and cost function and no
\* loss function.
C24_PanicsExactlyOnMismatch ==
    construction.made => OutcomesAre(ShapeMismatch)

\* C24, amended: ResidualBlock::new panics exactly when no parameter vector is
\* given or the shapes disagree as above, the same on every call with the same
\* arguments; a call that does not panic gives a block with the given
\* parameters and cost function and no loss function.
C24_PanicsOnEmptyOrMismatch ==
    construction.made => OutcomesAre(construction.parameters = <<>> \/ ShapeMismatch)

\* Two calls with two vectors of which only the second has not the declared
\* length: both panicked.
C24_Witness ==
    /\ construction.made
    /\ Len(construction.outcomes) = 2
    /\ Len(construction.parameters) = 2
    /\ Len(construction.cost_function.parameter_block_sizes) = 2
    /\ construction.parameters[1].len = construction.cost_function.parameter_block_sizes[1]
    /\ construction.parameters[2].len # construction.cost_function.parameter_block_sizes[2]
    /\ construction.outcomes[1].panicked
    /\ construction.outcomes[2].panicked

\* The loss handle the native engine gets for a builder's loss field.
LossHandle(l) == IF l = None THEN "null" ELSE l[1]

\* C25: in every state each registered residual block has one cost function,
\* made for it alone, a loss handle that is null or one loss function, and a
\* non-empty ordered parameter list whose entries are, in order, the blocks of
\* the problem's storage that its build resolved; a build registers a block
\* only from a builder with a cost and parameters, passing the builder's cost
\* and its loss (null when none was set), and registers nothing otherwise.
C25_ResidualBlockInvariant ==
    LET native == problem.inner.residual_blocks
        storage == problem.parameter_storage
    IN  /\ Len(problem.residual_blocks) = Len(native)
        /\ Len(resolved) = Len(native)
        /\ native_cost_functions = Len(native)
        /\ \A k \in 1..Len(native) :
               /\ native[k].cost_function.func \in {c.func : c \in CostInputs}
               /\ native[k].loss_function \in {"null"} \cup LossInputs
               /\ native[k].num_parameter_blocks >= 1
               /\ native[k].num_parameter_blocks = Len(native[k].parameter_blocks)
               /\ Len(resolved[k]) = Len(native[k].parameter_blocks)
               /\ problem.residual_blocks[k].parameter_pointers = native[k].parameter_blocks
               /\ \A j \in 1..Len(resolved[k]) :
                      /\ resolved[k][j] < Len(storage)
                      /\ native[k].parameter_blocks[j] = values_ptr(storage[resolved[k][j] + 1])
        /\ IsBuild =>
               LET was == before.problem.inner.residual_blocks
               IN  IF before.cost = None \/ before.parameters = <<>> \/ ~result.value.ok
                   THEN native = was
                   ELSE /\ Len(native) = Len(was) + 1
                        /\ SubSeq(native, 1, Len(was)) = was
                        /\ native[Len(native)].cost_function.func = before.cost[1].func
                        /\ native[Len(native)].cost_function.num_residuals
                               = before.cost[1].num_residuals
                        /\ native[Len(native)].loss_function = LossHandle(before.loss)

\* A second residual block registered with a loss function and two
\* parameters, next to a first one registered without loss.
C25_Witness ==
    /\ IsBuild
    /\ result.value.ok
    /\ Len(problem.inner.residual_blocks) = 2
    /\ problem.inner.residual_blocks[1].loss_function = "null"
    /\ problem.inner.residual_blocks[2].loss_function # "null"
    /\ problem.inner.residual_blocks[2].num_parameter_blocks = 2

\* Blocks of the problem's storage that no residual block has given to the
\* native problem.
UnregisteredBlocks ==
    {i \in 1..Len(problem.parameter_storage) :
        pointer_mut(problem.parameter_storage[i]) \notin NativePointers(problem.inner)}

\* C26: in every problem a caller can hold, each parameter block of the storage
\* has been given to the native problem by some residual block (a block that a
\* failing build appended is only in a problem that was dropped), so every
\* constancy call and every bound call made on the native problem names a
\* parameter block it already has.
C26_StoredBlocksAreRegistered ==
    /\ owner = "problem" => UnregisteredBlocks = {}
    /\ native_call # None => native_call[1].values \in NativePointers(problem.inner)
    /\ \A k \in 1..Len(problem.inner.bound_calls) :
           problem.inner.bound_calls[k].values \in NativePointers(problem.inner)

\* A build that appended a new block and then failed for want of a cost: the
\* block is in the storage, unregistered, and the problem is gone.
C26_Witness ==
    /\ IsBuild
    /\ FailedWith("MissingCost")
    /\ UnregisteredBlocks # {}
    /\ owner = "dropped"

\* C27 as stated: when extend returns IndexOutOfBounds the storage holds
\* exactly the blocks it held before the call, in the same order.
C27_ExtendAtomicOnFailure ==
    (IsBuild /\ FailedWith("IndexOutOfBounds")) =>
        problem.parameter_storage = before.problem.parameter_storage

\* C27, amended: when extend returns IndexOutOfBounds the storage holds the
\* blocks it held before the call, in the same order, followed by the new
\* blocks that the failing call supplied before the refused index, in input
\* order.
C27_ExtendKeepsPrefixOnFailure ==
    (IsBuild /\ FailedWith("IndexOutOfBounds")) =>
        LET old == before.problem.parameter_storage
            new == problem.parameter_storage
            j == CHOOSE j \in BadPositions : \A k \in BadPositions : j <= k
        IN  /\ Len(new) = LenAt(j)
            /\ SubSeq(new, 1, Len(old)) = old
            /\ \A k \in 1..(j - 1) :
                   GivenParameters[k].tag = "Block" =>
                       new[LenAt(k) + 1] = GivenParameters[k].block[1]

\* A failing extend on an empty storage, given a new block and then an index
\* out of range: the storage is left with the new block.
C27_Witness ==
    /\ IsBuild
    /\ FailedWith("IndexOutOfBounds")
    /\ before.problem.parameter_storage = <<>>
    /\ Len(GivenParameters) = 2
    /\ GivenParameters[1].tag = "Block"
    /\ Len(problem.parameter_storage) = 1

\* C28: the cost callback calls the model once per data point, in data order,
\* and returns true exactly if the model returned true at every data point:
\* one false from the model makes the callback return false.
C28_FalseAtAnyPointIsReported ==
    callback.made =>
        LET x == callback.captured.x
            calls == callback.outcome.calls
        IN  /\ Len(calls) = Len(x)
            /\ \A i \in 1..Len(x) : calls[i].x = x[i]
            /\ callback.outcome.result
                   = (\A i \in 1..Len(x) : curve_func_call(callback.captured.curve_func, x[i]))

\* C29: CurveFitProblem1DBuilder::build never panics: whatever fields are set,
\* an initial-parameter slice of length zero included, it returns Ok with a
\* problem or Err with a CurveFitProblemBuildError.
C29_BuildNeverPanics ==
    fit.made =>
        /\ ~fit.outcome.panicked
        /\ \/ FitOk
           \/ \E tag \in {"DataSizesDontMatch", "FuncMissed", "XMissed", "YMissed",
                          "ParametersMissed", "LowerBoundarySizeMismatch",
                          "UpperBoundarySizeMismatch", "ParameterBlockStorageError"} :
                  FitErr(tag)

\* What the caller gave for an entry of the builder's parameter list: an index,
\* or a new block of one of the two kinds.
InputOf(parameter) ==
    IF parameter.tag = "Index"
    THEN [tag |-> "Index", template |-> "", index |-> parameter.index]
    ELSE [tag |-> "Block",
          template |-> IF parameter.block[1].size = 1 THEN "lower" ELSE "upper",
          index |-> 0]

\* C30: over any sequence of set_cost, set_loss, set_parameters and
\* add_parameter calls, none of the calls changes the captured problem; the
\* builder holds the cost and residual count of the last set_cost, the loss of
\* the last set_loss, and as parameters those of the last set_parameters
\* followed, in order, by those of the add_parameter calls after it; and a
\* successful build registers a residual block with that cost, residual count
\* and loss and one pointer per parameter of that list.
C30_Step ==
    /\ (owner = "builder" /\ owner' = "builder") =>
           /\ problem' = problem
           /\ native_cost_functions' = native_cost_functions
    /\ owner' = "builder" =>
           /\ cost' = chain'.cost
           /\ loss' = chain'.loss
           /\ Len(parameters') = Len(chain'.inputs)
           /\ \A j \in 1..Len(parameters') : InputOf(parameters'[j]) = chain'.inputs[j]
    /\ (owner = "builder" /\ owner' = "problem") =>
           LET native == problem'.inner.residual_blocks
               block == native[Len(native)]
               storage == problem'.parameter_storage
           IN  /\ Len(native) = Len(problem.inner.residual_blocks) + 1
               /\ block.cost_function.func = chain.cost[1].func
               /\ block.cost_function.num_residuals = chain.cost[1].num_residuals
               /\ block.loss_function = LossHandle(chain.loss)
               /\ Len(block.parameter_blocks) = Len(chain.inputs)
               /\ \A j \in 1..Len(chain.inputs) :
                      \E i \in 1..Len(storage) :
                          /\ block.parameter_blocks[j] = pointer_mut(storage[i])
                          /\ IF chain.inputs[j].tag = "Index"
                             THEN i = chain.inputs[j].index + 1
                             ELSE /\ i > Len(problem.parameter_storage)
                                  /\ InputOf(ParamBlock(storage[i])) = chain.inputs[j]

C30_Accumulation == [][C30_Step]_vars

\* A builder that was given the second cost and the second loss, and whose
\* two parameters are an index and then a new block.
C30_Witness ==
    /\ owner = "builder"
    /\ chain.cost = Some([func |-> "g", num_residuals |-> 2])
    /\ chain.loss = Some("cauchy")
    /\ Len(parameters) = 2
    /\ parameters[1].tag = "Index"
    /\ parameters[2].tag = "Block"

====
